---- MODULE Spec2Model ----
(***************************************************************************)
(* A model of the LLM wire-protocol adapters of adk-utils-go:              *)
(*   - the tool-call identifier policies of the two adapters               *)
(*     (genai/openai: normalizeToolCallID / denormalizeToolCallID,         *)
(*      genai/anthropic: sanitizeToolID),                                  *)
(*   - the reader/writer locking around the OpenAI ID table,               *)
(*   - the streaming generators (generateStream) of both adapters,         *)
(*   - the Anthropic history repair (repairMessageHistory).                *)
(* Each part has its own specification over the shared variables; the      *)
(* variables of the other parts stay at their idle values.                 *)
(***************************************************************************)
EXTENDS Integers, Sequences, FiniteSets, TLC

VARIABLES
    \* --- OpenAI Model instance (openai.go: type Model) ------------------
    toolCallIDMap,   \* m.toolCallIDMap: short ID -> original ID
    \* --- observation of the ID conversions of the request builders -------
    idLog,           \* set of [vendor, kind, id, wire]: parts converted so far
    calls,           \* number of conversions made (bounded by MaxCalls)
    lastDenorm,      \* the last denormalizeToolCallID call: [arg, ret] or NoCall
    \* --- goroutines sharing one OpenAI Model instance --------------------
    cpc,             \* per goroutine: position inside normalize / denormalize
    cArg,            \* per goroutine: the argument of the call in progress
    cRet,            \* per goroutine: the value returned by its last call
    muWriter,        \* toolCallIDMapMu: the goroutine holding Lock, or 0
    muReaders,       \* toolCallIDMapMu: the goroutines holding RLock
    \* --- one streaming call (generateStream of either adapter) -----------
    sVendor,         \* "openai" or "anthropic" ("none" before the call)
    sPc,             \* "idle", "loop" (inside for stream.Next()), "done"
    sChunks,         \* the chunks / events stream.Current() returned, in order
    sAcc,            \* acc / message: the text blocks accumulated so far
    sEmitted,        \* the items handed to yield, in order
    sReads,          \* number of stream.Next() calls
    sEnd,            \* how the generator returned ("none" while it runs)
    sStopped,        \* the consumer stopped pulling (a yield returned false)
    \* --- one request of the Anthropic builder (buildMessageParams) -------
    rIn,             \* messages: the list assembled from the contents
    rOut,            \* params.Messages: the list after repairMessageHistory
    rPc,             \* "build" while converting contents, "done" after repair
    \* --- one non-streaming call (generate of either adapter) -------------
    gVendor,         \* "openai" or "anthropic" ("none" before the call)
    gPc,             \* "idle", "built" (params ready), "sent" (resp received), "done"
    gResp,           \* resp: the texts of the vendor's choices / content blocks
    gEmitted,        \* the items handed to yield, in order
    \* --- one call, streaming or not --------------------------------------
    nReq,            \* number of requests handed to the client (New, NewStreaming)
    qConfig,         \* the request of the call has a Config
    qBadArgs,        \* ... has a FunctionCall whose Args json.Marshal rejects
    qBadResp,        \* ... has a FunctionResponse whose Response it rejects
    \* --- one content converted by the Chat Completions builder -----------
    bContent,        \* content: [role, parts]
    bOut,            \* what convertContentToMessages returned: [messages, err]
    bPc,             \* "build" while the caller assembles the content, "done"
    \* --- pure conversions of the Chat Completions and Messages adapters ----
    fLog,            \* the finish-reason conversions made: sequence of [vendor, reason, out]
    zSchema,         \* schema: the genai.Schema tree handed to convertSchema
    zOut,            \* what convertSchema returned: [result, err]
    zPc,             \* "build" while the caller assembles the schema, "done"
    \* --- one session of the Redis session service and its clients ----------
    rdSess,          \* the value under the session key: <<>> (no key) or <<State>>
    rdEvents,        \* the list under the events key
    rdIndex,         \* the session ID is a member of the sessions index
    cl,              \* per client: its call in progress and its session object
    nOps,            \* number of calls made (bounded by MaxOps)
    nCreated,        \* number of Create calls that returned a session
    nSet,            \* number of State().Set calls made
    \* --- the memory_entries table of the Postgres memory service -----------
    mem,             \* the rows: [id, app, user, session, event, text]
    memSeq,          \* the last value of the SERIAL sequence of the id column
    memClock,        \* time.Now(), as a count of the AddSession calls made
    memRes,          \* the last call: [op, app, user, arg, rows, err]
    memAdds          \* the sessions AddSession returned nil for, in order

idVars   == <<toolCallIDMap, idLog, calls, lastDenorm>>
concVars == <<cpc, cArg, cRet, muWriter, muReaders>>
streamVars == <<sVendor, sPc, sChunks, sAcc, sEmitted, sReads, sEnd, sStopped>>
repairVars == <<rIn, rOut, rPc>>
callVars == <<gVendor, gPc, gResp, gEmitted>>
qVars    == <<qConfig, qBadArgs, qBadResp>>
buildVars == <<bContent, bOut, bPc>>
convVars == <<fLog, zSchema, zOut, zPc>>
sessVars == <<rdSess, rdEvents, rdIndex, cl, nOps, nCreated, nSet>>
memVars == <<mem, memSeq, memClock, memRes, memAdds>>
vars     == <<toolCallIDMap, idLog, calls, lastDenorm,
              cpc, cArg, cRet, muWriter, muReaders,
              sVendor, sPc, sChunks, sAcc, sEmitted, sReads, sEnd, sStopped,
              rIn, rOut, rPc,
              gVendor, gPc, gResp, gEmitted, nReq, qConfig, qBadArgs, qBadResp,
              bContent, bOut, bPc,
              fLog, zSchema, zOut, zPc,
              rdSess, rdEvents, rdIndex, cl, nOps, nCreated, nSet,
              mem, memSeq, memClock, memRes, memAdds>>

-----------------------------------------------------------------------------
(* Bounds of the model *)

\* IDs are at most maxToolCallIDLength + MaxOver characters long
MaxOver == 1
\* number of ID conversions one adapter instance makes in a run
MaxCalls == 3
\* number of goroutines sharing one adapter instance
NProcs == 2
\* number of chunks the transport delivers in one streaming call
MaxChunks == 3
\* number of goroutines calling the session service, and of their calls
NClients == 2
MaxOps == 5
\* number of calls made to the memory service
MaxMemOps == 3
\* number of messages of a request, and of content blocks in all of them
MaxMsgs == 3
MaxBlocks == 3

-----------------------------------------------------------------------------
(* Strings that the code inspects character by character are sequences of  *)
(* one-character strings.                                                  *)

Fill(c, n) == [i \in 1..n |-> c]

HexDigits == <<"0","1","2","3","4","5","6","7","8","9","a","b","c","d","e","f">>

Pow16(k) == IF k = 0 THEN 1 ELSE IF k = 1 THEN 16 ELSE IF k = 2 THEN 256
            ELSE IF k = 3 THEN 4096 ELSE 65536

\* hex.EncodeToString of a number on w digits (w <= 4), most significant first
Hex(n, w) == [i \in 1..w |-> HexDigits[((n \div Pow16(w - i)) % 16) + 1]]

\* the characters the ID policies distinguish: letters, digits, "_", "-",
\* and "!" standing for any character outside [a-zA-Z0-9_-]
IDCharset == {"a","b","c","d","e","f","l","o","t","u",
              "0","1","2","3","4","5","6","7","8","9","_","-"}

CharCode(c) ==
    CASE c = "a" -> 1 [] c = "b" -> 2 [] c = "!" -> 3 [] c = "_" -> 4
      [] c = "-" -> 5 [] c = "t" -> 6 [] c = "c" -> 7 [] c = "o" -> 8
      [] c = "l" -> 9 [] c = "u" -> 10 [] OTHER -> 11

\* const maxToolCallIDLength = 40
maxToolCallIDLength == 40

(* The canonical IDs of the model *)

IdLengths == {0, 1, maxToolCallIDLength}
             \cup {maxToolCallIDLength + k : k \in 1..MaxOver}

\* all-"a" IDs of each length, and the same with a last character outside
\* the Anthropic charset
IdPool == {Fill("a", n) : n \in IdLengths}
          \cup {Fill("a", n - 1) \o <<"!">> :
                    n \in IdLengths \ {0, maxToolCallIDLength}}

\* two IDs over the limit, for the goroutines of SpecConc
ConcLongIds == {Fill("a", maxToolCallIDLength + 1),
                Fill("a", maxToolCallIDLength) \o <<"!">>}

RECURSIVE ByteSum(_, _)
\* position-weighted sum of the codes of the first n characters of s
ByteSum(s, n) == IF n = 0 THEN 0 ELSE (ByteSum(s, n - 1) + n * CharCode(s[n])) % 65536

RECURSIVE ByteCount(_, _, _)
ByteCount(s, n, c) ==
    IF n = 0 THEN 0 ELSE ByteCount(s, n - 1, c) + (IF s[n] = c THEN 1 ELSE 0)

\* sha256.Sum256 followed by hex.EncodeToString: 64 hex digits that are a
\* deterministic function of the bytes and of nothing else.  The digest of the
\* model is a checksum that, like SHA-256 on any set of inputs one can write
\* down, has no collision among the IDs of the model, also after truncation
\* (DigestCollisionFree below).
sha256Block(s) ==
    Hex(Len(s), 2) \o Hex(ByteSum(s, Len(s)), 4) \o Hex(ByteCount(s, Len(s), "!"), 2)

sha256Digest(s) == LET b == sha256Block(s) IN [i \in 1..64 |-> b[((i * 5) % 8) + 1]]

\* the digests of the IDs of the model, computed once
sha256Table == [s \in IdPool \cup ConcLongIds |-> sha256Digest(s)]

sha256Hex(s) == IF s \in DOMAIN sha256Table THEN sha256Table[s] ELSE sha256Digest(s)

-----------------------------------------------------------------------------
(* genai/openai: the length-limited policy *)

TcTag == <<"t", "c", "_">>

\* "tc_" + hex.EncodeToString(hash[:])[:maxToolCallIDLength-3]
shortIDOf(id) == TcTag \o SubSeq(sha256Hex(id), 1, maxToolCallIDLength - 3)

\* a plausible slip: the table is made anew for each entry
MapPut_fresh(m, k, v) == [x \in {k} |-> v]

\* m.toolCallIDMap[shortID] = id
MapPut(m, k, v) == [x \in DOMAIN m \cup {k} |-> IF x = k THEN v ELSE m[x]]

\* a plausible slip: "<" for "<=", an ID of exactly the limit is hashed
normalizeToolCallID_lt(m, id) ==
    IF Len(id) < maxToolCallIDLength
    THEN [ret |-> id, map |-> m]
    ELSE [ret |-> shortIDOf(id), map |-> MapPut(m, shortIDOf(id), id)]

\* a plausible slip: the short ID is returned but never stored
normalizeToolCallID_noStore(m, id) ==
    IF Len(id) <= maxToolCallIDLength
    THEN [ret |-> id, map |-> m]
    ELSE [ret |-> shortIDOf(id), map |-> m]

\* normalizeToolCallID on the table m: the value returned and the table after
normalizeToolCallID(m, id) ==
    IF Len(id) <= maxToolCallIDLength
    THEN [ret |-> id, map |-> m]
    ELSE [ret |-> shortIDOf(id), map |-> MapPut(m, shortIDOf(id), id)]

\* denormalizeToolCallID on the table m
denormalizeToolCallID(m, shortID) ==
    IF shortID \in DOMAIN m THEN m[shortID] ELSE shortID

-----------------------------------------------------------------------------
(* genai/anthropic: the charset-limited policy *)

\* a plausible slip: the pattern only asks for a non-empty ID
anthropicToolIDPattern_nonEmpty(id) == Len(id) > 0

\* anthropicToolIDPattern = ^[a-zA-Z0-9_-]+$
anthropicToolIDPattern(id) ==
    /\ Len(id) > 0
    /\ \A i \in 1..Len(id) : id[i] \in IDCharset

ToolUTag == <<"t", "o", "o", "l", "u", "_">>

\* a plausible slip: a fresh ID from a counter instead of a hash of the ID
sanitizeToolID_counter(id) ==
    IF anthropicToolIDPattern(id) THEN id
    ELSE ToolUTag \o Hex(calls, 4)

\* a plausible slip: every ID is hashed, the valid ones too
sanitizeToolID_alwaysHash(id) == ToolUTag \o SubSeq(sha256Hex(id), 1, 32)

\* "toolu_" + hex.EncodeToString(hash[:16])
sanitizeToolID(id) ==
    IF anthropicToolIDPattern(id) THEN id
    ELSE ToolUTag \o SubSeq(sha256Hex(id), 1, 32)

-----------------------------------------------------------------------------
(* The IDs handed to the adapters *)

LongIds == {s \in IdPool : Len(s) > maxToolCallIDLength}

\* the IDs a caller can hand to the adapters: canonical IDs and the short
\* forms the OpenAI adapter produced for them
QueryIds == IdPool \cup {shortIDOf(s) : s \in LongIds}

DigestCollisionFree ==
    \A s, t \in IdPool :
        s # t => /\ SubSeq(sha256Hex(s), 1, 32) # SubSeq(sha256Hex(t), 1, 32)
                 /\ shortIDOf(s) # shortIDOf(t)

PartKinds == {"FunctionCall", "FunctionResponse"}

NoCall == [arg |-> <<>>, ret |-> <<>>, made |-> FALSE]

EmptyMap == <<>>

-----------------------------------------------------------------------------
(* Idle values of each part *)

IdIdle ==
    /\ toolCallIDMap = EmptyMap
    /\ idLog = {}
    /\ calls = 0
    /\ lastDenorm = NoCall

ConcIdle ==
    /\ cpc = [p \in 1..NProcs |-> "idle"]
    /\ cArg = [p \in 1..NProcs |-> <<>>]
    /\ cRet = [p \in 1..NProcs |-> <<>>]
    /\ muWriter = 0
    /\ muReaders = {}

StreamIdle ==
    /\ sVendor = "none"
    /\ sPc = "idle"
    /\ sChunks = <<>>
    /\ sAcc = <<>>
    /\ sEmitted = <<>>
    /\ sReads = 0
    /\ sEnd = "none"
    /\ sStopped = FALSE

RepairIdle ==
    /\ rIn = <<>>
    /\ rOut = <<>>
    /\ rPc = "build"

\* the response variable before any response was received
NoResp == <<"-">>

CallIdle ==
    /\ gVendor = "none"
    /\ gPc = "idle"
    /\ gResp = NoResp
    /\ gEmitted = <<>>
    /\ nReq = 0
    /\ qConfig = FALSE
    /\ qBadArgs = FALSE
    /\ qBadResp = FALSE

NoOutput == [messages |-> <<>>, err |-> ""]

BuildIdle ==
    /\ bContent = [role |-> "user", parts |-> <<>>]
    /\ bOut = NoOutput
    /\ bPc = "build"

\* a nil *genai.Schema
NilSchema == [nil |-> TRUE, type |-> "", properties |-> <<>>, items |-> <<>>]

\* a JSON-schema map: each key is absent (<<>>) or present with a value
NoMap == [type |-> <<>>, properties |-> <<>>, items |-> <<>>]

ConvIdle ==
    /\ fLog = <<>>
    /\ zSchema = NilSchema
    /\ zOut = [result |-> NoMap, err |-> ""]
    /\ zPc = "build"

\* the goroutines calling the session service
Clients == 1..NClients

\* a client that made no call and holds no session object: pc is its
\* position in the call, data the redisState.data of its session (<<>>
\* without a session, else <<map>>), op its last call and ret what that
\* returned, evt the event and kv the key and value it last passed, st the
\* State it is about to store
NoClient == [pc |-> "idle", data |-> <<>>, op |-> "none", ret |-> "none",
             evt |-> [id |-> "", partial |-> TRUE, delta |-> <<>>],
             kv |-> <<<<"", "">>, 0>>, st |-> <<>>]

SessIdle ==
    /\ rdSess = <<>>
    /\ rdEvents = <<>>
    /\ rdIndex = FALSE
    /\ cl = [p \in Clients |-> NoClient]
    /\ nOps = 0
    /\ nCreated = 0
    /\ nSet = 0

MemIdle ==
    /\ mem = {}
    /\ memSeq = 0
    /\ memClock = 0
    /\ memRes = [op |-> "none", app |-> "", user |-> "", arg |-> "", id |-> 0,
                 rows |-> {}, err |-> ""]
    /\ memAdds = <<>>

-----------------------------------------------------------------------------
(* SpecIds: one adapter instance of each vendor converting the tool parts   *)
(* of the requests it builds, in any order.                                 *)

\* New: toolCallIDMap: make(map[string]string)
InitIds == IdIdle /\ ConcIdle /\ StreamIdle /\ RepairIdle /\ CallIdle /\ BuildIdle /\ ConvIdle /\ SessIdle /\ MemIdle

\* openai convertContentToMessages, case part.FunctionResponse / FunctionCall:
\* normalizedID := m.normalizeToolCallID(part.<kind>.ID)
OAIConvertPart(kind, id) ==
    /\ calls < MaxCalls
    /\ toolCallIDMap' = normalizeToolCallID(toolCallIDMap, id).map
    /\ idLog' = idLog \cup {[vendor |-> "openai", kind |-> kind, id |-> id,
                             wire |-> normalizeToolCallID(toolCallIDMap, id).ret]}
    /\ calls' = calls + 1
    /\ UNCHANGED <<memVars, sessVars, convVars, callVars, qVars, buildVars, nReq, streamVars, repairVars, lastDenorm, concVars>>

\* anthropic convertContentToMessage, part.FunctionCall / part.FunctionResponse:
\* ID: sanitizeToolID(part.<kind>.ID)
AnthConvertPart(kind, id) ==
    /\ calls < MaxCalls
    /\ idLog' = idLog \cup {[vendor |-> "anthropic", kind |-> kind, id |-> id,
                             wire |-> sanitizeToolID(id)]}
    /\ calls' = calls + 1
    /\ UNCHANGED <<memVars, sessVars, convVars, callVars, qVars, buildVars, nReq, streamVars, repairVars, toolCallIDMap, lastDenorm, concVars>>

\* a call of denormalizeToolCallID(shortID) on the instance
OAIDenormalize(shortID) ==
    /\ lastDenorm' = [arg |-> shortID,
                      ret |-> denormalizeToolCallID(toolCallIDMap, shortID),
                      made |-> TRUE]
    /\ UNCHANGED <<memVars, sessVars, convVars, callVars, qVars, buildVars, nReq, streamVars, repairVars, toolCallIDMap, idLog, calls, concVars>>

NextIds ==
    \/ \E kind \in PartKinds, id \in IdPool : OAIConvertPart(kind, id)
    \/ \E kind \in PartKinds, id \in IdPool : AnthConvertPart(kind, id)

SpecIds == InitIds /\ [][NextIds]_vars

(* SpecTable: one OpenAI adapter instance, its conversions and the reverse  *)
(* lookups in its ID table.                                                 *)

NextTable ==
    \/ \E kind \in PartKinds, id \in IdPool : OAIConvertPart(kind, id)
    \/ \E s \in QueryIds : OAIDenormalize(s)

SpecTable == InitIds /\ [][NextTable]_vars

-----------------------------------------------------------------------------
(* SpecConc: NProcs goroutines (concurrent requests) sharing one OpenAI     *)
(* Model instance, each calling normalizeToolCallID and                     *)
(* denormalizeToolCallID; every lock operation and every map access is a    *)
(* step of its own.                                                         *)

Procs == 1..NProcs

\* the IDs the goroutines pass: one ID under the limit, two over it, and the
\* short forms of those two
ConcIds == {Fill("a", 1)} \cup ConcLongIds \cup {shortIDOf(s) : s \in ConcLongIds}

\* sync.RWMutex: Lock is granted when no goroutine holds Lock or RLock
CanLock(p) == muWriter = 0 /\ muReaders = {}

\* sync.RWMutex: RLock is granted when no goroutine holds Lock
CanRLock(p) == muWriter = 0

InitConc == IdIdle /\ ConcIdle /\ StreamIdle /\ RepairIdle /\ CallIdle /\ BuildIdle /\ ConvIdle /\ SessIdle /\ MemIdle

\* normalizeToolCallID: if len(id) <= maxToolCallIDLength { return id };
\* otherwise hash and go on to m.toolCallIDMapMu.Lock()
NormCall(p, id) ==
    /\ cpc[p] = "idle"
    /\ cArg' = [cArg EXCEPT ![p] = id]
    /\ IF Len(id) <= maxToolCallIDLength
       THEN /\ cpc' = [cpc EXCEPT ![p] = "n_ret"]
            /\ cRet' = [cRet EXCEPT ![p] = id]
       ELSE /\ cpc' = [cpc EXCEPT ![p] = "n_lock"]
            /\ cRet' = cRet
    /\ UNCHANGED <<memVars, sessVars, convVars, callVars, qVars, buildVars, nReq, streamVars, repairVars, idVars, muWriter, muReaders>>

\* a plausible slip: the insert is made without taking the lock
NormLock_noLock(p) ==
    /\ cpc[p] = "n_lock"
    /\ cpc' = [cpc EXCEPT ![p] = "n_write"]
    /\ UNCHANGED <<memVars, sessVars, convVars, callVars, qVars, buildVars, nReq, streamVars, repairVars, idVars, cArg, cRet, muWriter, muReaders>>

\* m.toolCallIDMapMu.Lock()
NormLock(p) ==
    /\ cpc[p] = "n_lock"
    /\ CanLock(p)
    /\ muWriter' = p
    /\ cpc' = [cpc EXCEPT ![p] = "n_write"]
    /\ UNCHANGED <<memVars, sessVars, convVars, callVars, qVars, buildVars, nReq, streamVars, repairVars, idVars, cArg, cRet, muReaders>>

\* m.toolCallIDMap[shortID] = id
NormWrite(p) ==
    /\ cpc[p] = "n_write"
    /\ toolCallIDMap' = MapPut(toolCallIDMap, shortIDOf(cArg[p]), cArg[p])
    /\ cpc' = [cpc EXCEPT ![p] = "n_unlock"]
    /\ UNCHANGED <<memVars, sessVars, convVars, callVars, qVars, buildVars, nReq, streamVars, repairVars, idLog, calls, lastDenorm, cArg, cRet, muWriter, muReaders>>

\* m.toolCallIDMapMu.Unlock(); return shortID
NormUnlock(p) ==
    /\ cpc[p] = "n_unlock"
    /\ muWriter' = IF muWriter = p THEN 0 ELSE muWriter
    /\ cRet' = [cRet EXCEPT ![p] = shortIDOf(cArg[p])]
    /\ cpc' = [cpc EXCEPT ![p] = "n_ret"]
    /\ UNCHANGED <<memVars, sessVars, convVars, callVars, qVars, buildVars, nReq, streamVars, repairVars, idVars, cArg, muReaders>>

\* the caller has the result of normalizeToolCallID
NormReturn(p) ==
    /\ cpc[p] = "n_ret"
    /\ cpc' = [cpc EXCEPT ![p] = "idle"]
    /\ cArg' = [cArg EXCEPT ![p] = <<>>]
    /\ cRet' = [cRet EXCEPT ![p] = <<>>]
    /\ UNCHANGED <<memVars, sessVars, convVars, callVars, qVars, buildVars, nReq, streamVars, repairVars, idVars, muWriter, muReaders>>

\* denormalizeToolCallID is called
DenCall(p, shortID) ==
    /\ cpc[p] = "idle"
    /\ cArg' = [cArg EXCEPT ![p] = shortID]
    /\ cpc' = [cpc EXCEPT ![p] = "d_rlock"]
    /\ UNCHANGED <<memVars, sessVars, convVars, callVars, qVars, buildVars, nReq, streamVars, repairVars, idVars, cRet, muWriter, muReaders>>

\* m.toolCallIDMapMu.RLock()
DenRLock(p) ==
    /\ cpc[p] = "d_rlock"
    /\ CanRLock(p)
    /\ muReaders' = muReaders \cup {p}
    /\ cpc' = [cpc EXCEPT ![p] = "d_read"]
    /\ UNCHANGED <<memVars, sessVars, convVars, callVars, qVars, buildVars, nReq, streamVars, repairVars, idVars, cArg, cRet, muWriter>>

\* if original, exists := m.toolCallIDMap[shortID]; exists { return original }
\* return shortID
DenRead(p) ==
    /\ cpc[p] = "d_read"
    /\ cRet' = [cRet EXCEPT ![p] = denormalizeToolCallID(toolCallIDMap, cArg[p])]
    /\ cpc' = [cpc EXCEPT ![p] = "d_runlock"]
    /\ UNCHANGED <<memVars, sessVars, convVars, callVars, qVars, buildVars, nReq, streamVars, repairVars, idVars, cArg, muWriter, muReaders>>

\* defer m.toolCallIDMapMu.RUnlock()
DenRUnlock(p) ==
    /\ cpc[p] = "d_runlock"
    /\ muReaders' = muReaders \ {p}
    /\ cpc' = [cpc EXCEPT ![p] = "d_ret"]
    /\ UNCHANGED <<memVars, sessVars, convVars, callVars, qVars, buildVars, nReq, streamVars, repairVars, idVars, cArg, cRet, muWriter>>

\* the caller has the result of denormalizeToolCallID
DenReturn(p) ==
    /\ cpc[p] = "d_ret"
    /\ cpc' = [cpc EXCEPT ![p] = "idle"]
    /\ cArg' = [cArg EXCEPT ![p] = <<>>]
    /\ cRet' = [cRet EXCEPT ![p] = <<>>]
    /\ UNCHANGED <<memVars, sessVars, convVars, callVars, qVars, buildVars, nReq, streamVars, repairVars, idVars, muWriter, muReaders>>

NextConc ==
    \/ \E p \in Procs, id \in ConcIds : NormCall(p, id)
    \/ \E p \in Procs : NormLock(p)
    \/ \E p \in Procs : NormWrite(p)
    \/ \E p \in Procs : NormUnlock(p)
    \/ \E p \in Procs : NormReturn(p)
    \/ \E p \in Procs, s \in ConcIds : DenCall(p, s)
    \/ \E p \in Procs : DenRLock(p)
    \/ \E p \in Procs : DenRead(p)
    \/ \E p \in Procs : DenRUnlock(p)
    \/ \E p \in Procs : DenReturn(p)

SpecConc == InitConc /\ [][NextConc]_vars

-----------------------------------------------------------------------------
(* Claims about the tool-call identifier adapters *)

\* [a-zA-Z0-9_-]+ as the vendor states it
ValidAnthropicID(s) ==
    Len(s) > 0 /\ \A i \in 1..Len(s) : s[i] \in IDCharset

OpenAIInputs == {r.id : r \in {x \in idLog : x.vendor = "openai"}}

\* C5: in either request builder, a FunctionCall part and a FunctionResponse
\* part with the same canonical ID get the same wire ID, whatever the ID,
\* the order of the conversions and the other IDs converted in between.
C5_SameWireID ==
    \A r1, r2 \in idLog :
        (r1.vendor = r2.vendor /\ r1.id = r2.id) => r1.wire = r2.wire

\* one builder converted a call and a response that carry the same ID, which
\* it rewrote, and another ID, rewritten too
C5_Witness ==
    \E r1, r2, r3 \in idLog :
        /\ r1.vendor = r2.vendor /\ r3.vendor = r1.vendor
        /\ r1.kind = "FunctionCall" /\ r2.kind = "FunctionResponse"
        /\ r1.id = r2.id /\ r1.wire # r1.id
        /\ r3.id # r1.id /\ r3.wire # r3.id

\* C6 as stated: in every state of the ID table, every ID s of at most 40
\* characters has normalizeToolCallID(s) = s and denormalizeToolCallID(s) = s.
C6_Original ==
    \A s \in QueryIds :
        Len(s) <= maxToolCallIDLength =>
            /\ normalizeToolCallID(toolCallIDMap, s).ret = s
            /\ denormalizeToolCallID(toolCallIDMap, s) = s

\* C6 as amended: every ID s of at most 40 characters is returned unchanged
\* by normalizeToolCallID, which leaves the table alone, and by
\* denormalizeToolCallID unless s is a key of the table, that is the short
\* form of a longer ID normalized before; then the stored original is returned.
C6_ShortIDs ==
    /\ \A s \in QueryIds :
        Len(s) <= maxToolCallIDLength =>
            /\ normalizeToolCallID(toolCallIDMap, s).ret = s
            /\ normalizeToolCallID(toolCallIDMap, s).map = toolCallIDMap
            /\ s \notin DOMAIN toolCallIDMap =>
                    denormalizeToolCallID(toolCallIDMap, s) = s
            /\ s \in DOMAIN toolCallIDMap =>
                    /\ denormalizeToolCallID(toolCallIDMap, s) \in OpenAIInputs
                    /\ Len(denormalizeToolCallID(toolCallIDMap, s)) > maxToolCallIDLength
    /\ \A r \in idLog :
        (r.vendor = "openai" /\ Len(r.id) <= maxToolCallIDLength) => r.wire = r.id
    /\ (lastDenorm.made /\ Len(lastDenorm.arg) <= maxToolCallIDLength) =>
            \/ lastDenorm.ret = lastDenorm.arg
            \/ lastDenorm.ret \in OpenAIInputs /\ Len(lastDenorm.ret) > maxToolCallIDLength

\* an ID of exactly 40 characters went through normalize unchanged, and
\* denormalize of a 40-character key returned the longer original
C6_Witness ==
    /\ \E r \in idLog : r.vendor = "openai" /\ Len(r.id) = maxToolCallIDLength
                          /\ r.wire = r.id
    /\ lastDenorm.made
    /\ Len(lastDenorm.arg) = maxToolCallIDLength
    /\ lastDenorm.ret # lastDenorm.arg

\* C7: for every ID s longer than 40 characters, normalizeToolCallID(s) has
\* at most 40 characters and starts with "tc_", and once s was normalized on
\* the instance, denormalizeToolCallID(normalizeToolCallID(s)) = s in every
\* later state.
C7_LongIDs ==
    /\ \A s \in LongIds :
        LET n == normalizeToolCallID(toolCallIDMap, s).ret IN
            /\ Len(n) <= maxToolCallIDLength
            /\ SubSeq(n, 1, 3) = TcTag
            /\ s \in OpenAIInputs => denormalizeToolCallID(toolCallIDMap, n) = s
    /\ \A r \in idLog :
        (r.vendor = "openai" /\ Len(r.id) > maxToolCallIDLength) =>
            /\ Len(r.wire) <= maxToolCallIDLength
            /\ SubSeq(r.wire, 1, 3) = TcTag
            /\ denormalizeToolCallID(toolCallIDMap, r.wire) = r.id

\* two different long IDs were normalized, and a later denormalize of the
\* short form of one of them returned it
C7_Witness ==
    /\ \E r1, r2 \in idLog :
        /\ r1.vendor = "openai" /\ r2.vendor = "openai"
        /\ Len(r1.id) > maxToolCallIDLength /\ Len(r2.id) > maxToolCallIDLength
        /\ r1.id # r2.id
        /\ lastDenorm.made /\ lastDenorm.arg = r1.wire /\ lastDenorm.ret = r1.id
    /\ Cardinality(DOMAIN toolCallIDMap) >= 2

\* C8: sanitizeToolID(s) = s for every s matching [a-zA-Z0-9_-]+; for every
\* other s (the empty ID included) the result matches [a-zA-Z0-9_-]+ and is
\* the same on every call, whatever was converted before.
C8_Sanitize ==
    /\ \A r \in idLog :
        r.vendor = "anthropic" =>
            /\ ValidAnthropicID(r.id) => r.wire = r.id
            /\ ~ValidAnthropicID(r.id) =>
                    /\ ValidAnthropicID(r.wire)
                    /\ \A r2 \in idLog :
                        (r2.vendor = "anthropic" /\ r2.id = r.id) => r2.wire = r.wire
    /\ \A s \in QueryIds :
        /\ ValidAnthropicID(s) => sanitizeToolID(s) = s
        /\ ~ValidAnthropicID(s) => ValidAnthropicID(sanitizeToolID(s))

\* the empty ID and an ID with an illegal character were sanitized, the
\* second one twice, with another conversion in between or around
C8_Witness ==
    \E r1, r2, r3 \in idLog :
        /\ r1.vendor = "anthropic" /\ r2.vendor = "anthropic" /\ r3.vendor = "anthropic"
        /\ r1.id = <<>> /\ r1.wire # <<>>
        /\ r2.id # <<>> /\ ~ValidAnthropicID(r2.id)
        /\ r3.id = r2.id /\ r3.kind # r2.kind

\* C16: sanitizeToolID is idempotent on its own output: for every ID s,
\* sanitizeToolID(sanitizeToolID(s)) = sanitizeToolID(s); a wire ID the
\* builder produced is left as it is when it comes back as a canonical ID.
C16_Idempotent ==
    /\ \A r \in idLog :
        r.vendor = "anthropic" => sanitizeToolID(r.wire) = r.wire
    /\ \A s \in QueryIds :
        sanitizeToolID(sanitizeToolID(s)) = sanitizeToolID(s)

\* an ID over 40 characters with a character outside the charset was
\* replaced by "toolu_" and 32 hex digits
C16_Witness ==
    \E r \in idLog :
        /\ r.vendor = "anthropic"
        /\ Len(r.id) > maxToolCallIDLength
        /\ ~ValidAnthropicID(r.id)
        /\ Len(r.wire) = 38
        /\ SubSeq(r.wire, 1, 6) = ToolUTag

\* C17: the ID table only grows: a step adds an entry only by normalizing
\* an ID longer than 40 characters, whose short form is the key, and every
\* entry of the table is in the table after the step with the same original.
C17_TableGrows ==
    [][/\ \A k \in DOMAIN toolCallIDMap :
            k \in DOMAIN toolCallIDMap' /\ toolCallIDMap'[k] = toolCallIDMap[k]
       /\ \A k \in DOMAIN toolCallIDMap' \ DOMAIN toolCallIDMap :
            /\ Len(toolCallIDMap'[k]) > maxToolCallIDLength
            /\ Len(k) <= maxToolCallIDLength
            /\ calls' = calls + 1
            /\ \E r \in idLog' \ idLog :
                  r.vendor = "openai" /\ r.id = toolCallIDMap'[k] /\ r.wire = k
       /\ toolCallIDMap' # toolCallIDMap => Cardinality(DOMAIN toolCallIDMap')
                                               = Cardinality(DOMAIN toolCallIDMap) + 1]_vars

\* what the steps leave behind: the table holds the long IDs normalized so
\* far, each under its short form, and nothing else
C17_TableContent ==
    /\ DOMAIN toolCallIDMap =
           {r.wire : r \in {x \in idLog : x.vendor = "openai"
                                          /\ Len(x.id) > maxToolCallIDLength}}
    /\ \A r \in idLog :
        (r.vendor = "openai" /\ Len(r.id) > maxToolCallIDLength) =>
            toolCallIDMap[r.wire] = r.id

\* two long IDs are in the table and a third normalization, of an ID that
\* needs none, left them there
C17_Witness ==
    /\ Cardinality(DOMAIN toolCallIDMap) = 2
    /\ calls = 3
    /\ \E r \in idLog : r.vendor = "openai" /\ Len(r.id) <= maxToolCallIDLength

\* C9: with one instance shared by concurrent requests, an insert into the
\* ID table never overlaps another insert or a lookup, and every
\* denormalizeToolCallID returns the stored original or its input.
C9_RaceFree ==
    /\ \A p, q \in Procs :
        (p # q /\ cpc[p] = "n_write") => cpc[q] \notin {"n_write", "d_read"}
    /\ muWriter # 0 => muReaders = {}
    /\ \A p \in Procs :
        cpc[p] \in {"d_runlock", "d_ret"} =>
            \/ cRet[p] = cArg[p]
            \/ /\ cArg[p] \in DOMAIN toolCallIDMap
               /\ toolCallIDMap[cArg[p]] = cRet[p]

\* two lookups overlap, one of them of a key an earlier insert stored
C9_Witness ==
    \E p, q \in Procs :
        /\ p # q
        /\ cpc[p] = "d_read" /\ cpc[q] = "d_read"
        /\ cArg[p] \in DOMAIN toolCallIDMap

\* an insert waits for the lock while a lookup holds it
C9_InsertWaits ==
    \E p, q \in Procs :
        cpc[p] = "n_lock" /\ cpc[q] = "d_read" /\ ~CanLock(p)

-----------------------------------------------------------------------------
(* SpecStream: one streaming call, generateStream of either adapter.  The   *)
(* transport decides what each stream.Next() delivers and when the stream   *)
(* ends; the consumer decides what each yield of a partial response         *)
(* returns.  One action is one run of the generator from one call of        *)
(* stream.Next() to the next.                                               *)

Vendors == {"openai", "anthropic"}

\* the text deltas of the model; "" is a delta without text
Deltas == {"", "Hel", "lo"}

\* openai.ChatCompletionChunk: no choice at all, or a first choice whose
\* Delta.Content is text ("" for a role or tool-call delta)
OAIChunks == {[kind |-> "nochoice", text |-> ""]}
             \cup {[kind |-> "choice", text |-> d] : d \in Deltas}

\* anthropic.MessageStreamEventUnion: content_block_start,
\* content_block_delta with a TextDelta or another delta, any other event
AnthEvents == {[kind |-> "content_block_start", text |-> ""],
               [kind |-> "input_json_delta", text |-> ""],
               [kind |-> "other", text |-> ""]}
              \cup {[kind |-> "text_delta", text |-> d] : d \in Deltas}

\* &model.LLMResponse{Content: {Parts: [{Text: delta}]}, Partial: true,
\* TurnComplete: false}
PartialResponse(text) ==
    [type |-> "resp", partial |-> TRUE, turnComplete |-> FALSE,
     parts |-> <<text>>, err |-> ""]

\* yield(nil, err)
ErrItem(e) ==
    [type |-> "err", partial |-> FALSE, turnComplete |-> FALSE,
     parts |-> <<>>, err |-> e]

\* a plausible slip: the content is set to the delta instead of growing by it
OAIAddChunk_replace(acc, chunk) ==
    IF chunk.kind = "choice" THEN <<chunk.text>> ELSE acc

\* acc.AddChunk(chunk): the first choice's content grows by the delta
OAIAddChunk(acc, chunk) ==
    IF chunk.kind = "choice"
    THEN IF acc = <<>> THEN <<chunk.text>> ELSE <<acc[1] \o chunk.text>>
    ELSE acc

\* a plausible slip: the final response keeps the flags of a partial one
buildStreamFinalResponse_partial(acc) ==
    [type |-> "resp", partial |-> TRUE, turnComplete |-> FALSE,
     parts |-> IF Len(acc) > 0 /\ acc[1] # "" THEN <<acc[1]>> ELSE <<>>,
     err |-> ""]

\* openai buildStreamFinalResponse: a Text part if the accumulated content
\* is not empty; Partial: false, TurnComplete: true
buildStreamFinalResponse(acc) ==
    [type |-> "resp", partial |-> FALSE, turnComplete |-> TRUE,
     parts |-> IF Len(acc) > 0 /\ acc[1] # "" THEN <<acc[1]>> ELSE <<>>,
     err |-> ""]

\* message.Accumulate(event) returns an error: a delta with no content block
\* to apply it to
AccumulateFails(acc, ev) ==
    ev.kind \in {"text_delta", "input_json_delta"} /\ acc = <<>>

\* message.Accumulate(event): the text blocks of the message after the event
Accumulate(acc, ev) ==
    CASE ev.kind = "content_block_start" -> Append(acc, "")
      [] ev.kind = "text_delta" -> [acc EXCEPT ![Len(acc)] = @ \o ev.text]
      [] OTHER -> acc

\* anthropic convertResponse(&message), then llmResp.Partial = false and
\* llmResp.TurnComplete = true: one Text part per text block
AnthFinalResponse(acc) ==
    [type |-> "resp", partial |-> FALSE, turnComplete |-> TRUE,
     parts |-> acc, err |-> ""]

\* a plausible slip: the check is only that the chunk has a choice
OAIHasDelta_anyChoice(chunk) == chunk.kind = "choice"

\* len(chunk.Choices) > 0 && chunk.Choices[0].Delta.Content != ""
OAIHasDelta(chunk) == chunk.kind = "choice" /\ chunk.text # ""

\* case anthropic.TextDelta: if deltaVariant.Text != ""
AnthHasDelta(ev) == ev.kind = "text_delta" /\ ev.text # ""

\* a plausible slip: the result of yield is ignored and the loop goes on
AfterYield_ignored(ok) == "loop"

\* if !yield(llmResp, nil) { return }
AfterYield(ok) == IF ok THEN "loop" ELSE "done"

\* a plausible slip: stream.Err() is not checked and the aggregate is yielded
StreamEndItems_swallow(vendor, acc, err) ==
    IF vendor = "openai" THEN <<buildStreamFinalResponse(acc)>>
    ELSE <<AnthFinalResponse(acc)>>

\* after the loop: if err := stream.Err(); err != nil { yield(nil, err);
\* return }, otherwise the final aggregated response is yielded
StreamEndItems(vendor, acc, err) ==
    IF err THEN <<ErrItem("transport")>>
    ELSE IF vendor = "openai" THEN <<buildStreamFinalResponse(acc)>>
    ELSE <<AnthFinalResponse(acc)>>

InitStream == IdIdle /\ ConcIdle /\ StreamIdle /\ RepairIdle /\ CallIdle /\ BuildIdle /\ ConvIdle /\ SessIdle /\ MemIdle

\* stream := m.client...NewStreaming(ctx, params), reached only when the
\* params were built: the requests issued after it
NewStreaming(n, buildFails) == IF buildFails THEN n ELSE n + 1

\* generateStream up to the first stream.Next(): the request is built; if
\* that fails, yield(nil, err) and return; otherwise the request is issued.
\* (The request itself is the caller's: see SpecCall.)
StreamStart(vendor, buildFails) ==
    /\ sPc = "idle"
    /\ sVendor' = vendor
    /\ IF buildFails
       THEN /\ sEmitted' = <<ErrItem("build")>>
            /\ sPc' = "done"
            /\ sEnd' = "buildErr"
       ELSE /\ sEmitted' = sEmitted
            /\ sPc' = "loop"
            /\ sEnd' = sEnd
    /\ nReq' = NewStreaming(nReq, buildFails)
    /\ UNCHANGED <<memVars, sessVars, convVars, callVars, buildVars, sChunks, sAcc, sReads, sStopped, idVars, concVars, repairVars>>

\* openai: stream.Next() is true; acc.AddChunk(chunk); a non-empty delta is
\* yielded as a partial response, and the generator returns if yield says so
OAIChunk(chunk, ok) ==
    /\ sPc = "loop"
    /\ sVendor = "openai"
    /\ Len(sChunks) < MaxChunks
    /\ sReads' = sReads + 1
    /\ sChunks' = Append(sChunks, chunk)
    /\ sAcc' = OAIAddChunk(sAcc, chunk)
    /\ IF OAIHasDelta(chunk)
       THEN /\ sEmitted' = Append(sEmitted, PartialResponse(chunk.text))
            /\ sStopped' = (sStopped \/ ~ok)
            /\ sPc' = AfterYield(ok)
            /\ sEnd' = IF AfterYield(ok) = "done" THEN "stopped" ELSE sEnd
       ELSE UNCHANGED <<memVars, sessVars, convVars, sEmitted, sStopped, sPc, sEnd>>
    /\ UNCHANGED <<memVars, sessVars, convVars, callVars, qVars, buildVars, nReq, sVendor, idVars, concVars, repairVars>>

\* anthropic: stream.Next() is true; message.Accumulate(event), whose error
\* is yielded and ends the generator; a non-empty TextDelta is yielded as a
\* partial response, and the generator returns if yield says so
AnthEvent(ev, accFails, ok) ==
    /\ sPc = "loop"
    /\ sVendor = "anthropic"
    /\ Len(sChunks) < MaxChunks
    /\ sReads' = sReads + 1
    /\ sChunks' = Append(sChunks, ev)
    /\ IF accFails \/ AccumulateFails(sAcc, ev)
       THEN /\ sAcc' = sAcc
            /\ sEmitted' = Append(sEmitted, ErrItem("accumulate"))
            /\ sPc' = "done"
            /\ sEnd' = "accErr"
            /\ sStopped' = sStopped
       ELSE /\ sAcc' = Accumulate(sAcc, ev)
            /\ IF AnthHasDelta(ev)
               THEN /\ sEmitted' = Append(sEmitted, PartialResponse(ev.text))
                    /\ sStopped' = (sStopped \/ ~ok)
                    /\ sPc' = AfterYield(ok)
                    /\ sEnd' = IF AfterYield(ok) = "done" THEN "stopped" ELSE sEnd
               ELSE UNCHANGED <<memVars, sessVars, convVars, sEmitted, sStopped, sPc, sEnd>>
    /\ UNCHANGED <<memVars, sessVars, convVars, callVars, qVars, buildVars, nReq, sVendor, idVars, concVars, repairVars>>

\* stream.Next() is false: the stream is over, with a transport error
\* (stream.Err() != nil) or without
StreamEnd(err) ==
    /\ sPc = "loop"
    /\ sReads' = sReads + 1
    /\ sEmitted' = sEmitted \o StreamEndItems(sVendor, sAcc, err)
    /\ sPc' = "done"
    /\ sEnd' = IF err THEN "transportErr" ELSE "complete"
    /\ UNCHANGED <<memVars, sessVars, convVars, callVars, qVars, buildVars, nReq, sVendor, sChunks, sAcc, sStopped, idVars, concVars, repairVars>>

NextStream ==
    \/ \E vendor \in Vendors, buildFails \in BOOLEAN :
           StreamStart(vendor, buildFails) /\ UNCHANGED qVars
    \/ \E chunk \in OAIChunks, ok \in BOOLEAN : OAIChunk(chunk, ok)
    \/ \E ev \in AnthEvents, accFails \in BOOLEAN, ok \in BOOLEAN :
           AnthEvent(ev, accFails, ok)
    \/ \E err \in BOOLEAN : StreamEnd(err)

SpecStream == InitStream /\ [][NextStream]_vars

-----------------------------------------------------------------------------
(* Claims about streaming *)

IsPartial(it) == it.type = "resp" /\ it.partial /\ ~it.turnComplete
IsFinal(it) == it.type = "resp" /\ ~it.partial /\ it.turnComplete

\* the non-empty text deltas of a sequence of chunks, in order
RECURSIVE TextDeltas(_)
TextDeltas(chunks) ==
    IF chunks = <<>> THEN <<>>
    ELSE LET c == Head(chunks) IN
         (IF c.kind \in {"choice", "text_delta"} /\ c.text # ""
          THEN <<c.text>> ELSE <<>>) \o TextDeltas(Tail(chunks))

\* the Text parts of the partial responses of a sequence of items, in order
RECURSIVE PartialTexts(_)
PartialTexts(items) ==
    IF items = <<>> THEN <<>>
    ELSE (IF IsPartial(Head(items)) THEN Head(items).parts ELSE <<>>)
         \o PartialTexts(Tail(items))

OnePartEach(items) ==
    \A i \in 1..Len(items) : IsPartial(items[i]) => Len(items[i].parts) = 1

\* C2: a streaming call whose stream completes with no transport error
\* emits zero or more partial responses (partial, not turnComplete) and then
\* exactly one final response (not partial, turnComplete), which is last.
C2_StreamShape ==
    /\ sEnd = "complete" =>
            /\ Len(sEmitted) >= 1
            /\ IsFinal(sEmitted[Len(sEmitted)])
            /\ \A i \in 1..(Len(sEmitted) - 1) : IsPartial(sEmitted[i])
    /\ \A i \in 1..Len(sEmitted) : IsFinal(sEmitted[i]) => i = Len(sEmitted)

\* a stream of three chunks completed: two partial responses, then the final
C2_Witness ==
    /\ sEnd = "complete"
    /\ Len(sChunks) = 3
    /\ Len(sEmitted) = 3

\* C3 as stated: each chunk with a non-empty text delta yields exactly one
\* partial response with that delta as its only Text part, other chunks
\* yield none, and the partial responses come in the order of the chunks.
C3_Original ==
    /\ PartialTexts(sEmitted) = TextDeltas(sChunks)
    /\ OnePartEach(sEmitted)

\* the chunks read so far whose accumulation did not fail
Accumulated == IF sEnd = "accErr" THEN SubSeq(sChunks, 1, Len(sChunks) - 1) ELSE sChunks

\* C3 as amended: the same, for the chunks that were accumulated; an
\* Anthropic event whose message.Accumulate fails yields no partial response,
\* whatever its delta, but the error, which ends the sequence.
C3_DeltasInOrder ==
    /\ PartialTexts(sEmitted) = TextDeltas(Accumulated)
    /\ OnePartEach(sEmitted)
    /\ sEnd = "accErr" =>
            /\ sEmitted[Len(sEmitted)] = ErrItem("accumulate")
            /\ sPc = "done"

\* two partial responses were delivered for three chunks, one without text;
\* and the same with a last event, a non-empty text delta, that failed to
\* accumulate
C3_Witness ==
    /\ Len(sChunks) = 3
    /\ Len(PartialTexts(sEmitted)) = 2
    /\ PartialTexts(sEmitted)[1] # PartialTexts(sEmitted)[2]
    /\ sPc = "loop"

C3_WitnessAccErr ==
    /\ sEnd = "accErr"
    /\ AnthHasDelta(sChunks[Len(sChunks)])
    /\ Len(PartialTexts(sEmitted)) >= 1

\* C4: when the transport fails, the sequence ends with that error in place
\* of a response, no final aggregated response is emitted, and the partial
\* responses delivered before stay as delivered.
C4_TransportError ==
    sEnd = "transportErr" =>
        /\ Len(sEmitted) >= 1
        /\ sEmitted[Len(sEmitted)] = ErrItem("transport")
        /\ \A i \in 1..(Len(sEmitted) - 1) : IsPartial(sEmitted[i])
        /\ \A i \in 1..Len(sEmitted) : ~IsFinal(sEmitted[i])
        /\ PartialTexts(sEmitted) = TextDeltas(sChunks)
        /\ sPc = "done"

\* the transport failed after two partial responses were delivered
C4_Witness ==
    /\ sEnd = "transportErr"
    /\ Len(sEmitted) = 3
    /\ IsPartial(sEmitted[1]) /\ IsPartial(sEmitted[2])

RECURSIVE ConcatTexts(_)
\* the texts of a sequence, one after the other
ConcatTexts(texts) ==
    IF texts = <<>> THEN "" ELSE Head(texts) \o ConcatTexts(Tail(texts))

C10_NoWorkAfterStop ==
    [][sStopped => (sReads' = sReads /\ sEmitted' = sEmitted /\ sPc' = "done")]_vars

\* what the stop leaves behind: the generator has returned, the partial
\* response the consumer refused is the last item
C10_StoppedState ==
    sStopped =>
        /\ sPc = "done"
        /\ sEnd = "stopped"
        /\ sReads = Len(sChunks)
        /\ IsPartial(sEmitted[Len(sEmitted)])

\* the consumer stopped after the second partial response, when the
\* transport could still deliver
C10_Witness ==
    /\ sStopped
    /\ sPc = "done"
    /\ Len(sEmitted) = 2
    /\ Len(sChunks) < MaxChunks

-----------------------------------------------------------------------------
(* SpecRepair: the Anthropic request builder assembles the message list of  *)
(* one request, block by block and message by message, and then repairs it. *)

\* anthropic.MessageParamRole, the two values convertRoleToAnthropic returns
Roles == {"user", "assistant"}

\* the wire IDs of the tool blocks of the request
ToolIDs == {"a", "b"}

\* anthropic.ContentBlockParamUnion: a text (or image) block, OfToolUse with
\* its ID, OfToolResult with its ToolUseID
Blocks == {[type |-> "text", id |-> ""]}
          \cup {[type |-> "tool_use", id |-> i] : i \in ToolIDs}
          \cup {[type |-> "tool_result", id |-> i] : i \in ToolIDs}

\* extractToolUseIDs: the IDs of the tool_use blocks of a message, in order
RECURSIVE extractToolUseIDs(_)
extractToolUseIDs(content) ==
    IF content = <<>> THEN <<>>
    ELSE (IF Head(content).type = "tool_use" THEN <<Head(content).id>> ELSE <<>>)
         \o extractToolUseIDs(Tail(content))

\* extractToolResultIDs: the IDs of the tool_result blocks, in order
RECURSIVE extractToolResultIDs(_)
extractToolResultIDs(content) ==
    IF content = <<>> THEN <<>>
    ELSE (IF Head(content).type = "tool_result" THEN <<Head(content).id>> ELSE <<>>)
         \o extractToolResultIDs(Tail(content))

\* a plausible slip: only the first tool_result ID is entered
matchedIDsOf_first(ids) == IF Len(ids) = 0 THEN {} ELSE {ids[1]}

\* matchedIDs[id] = true for each of toolResultIDs
matchedIDsOf(ids) == {ids[k] : k \in 1..Len(ids)}

\* a plausible slip: a tool_use block is kept as soon as anything matched
RECURSIVE filterBlocks_anyMatch(_, _)
filterBlocks_anyMatch(content, allowedIDs) ==
    IF content = <<>> THEN <<>>
    ELSE (IF Head(content).type = "tool_use" /\ allowedIDs = {}
          THEN <<>> ELSE <<Head(content)>>)
         \o filterBlocks_anyMatch(Tail(content), allowedIDs)

\* the loop of filterToolUse: a tool_use block is kept if allowedIDs has its
\* ID, any other block is kept (a nil allowedIDs is the empty set)
RECURSIVE filterBlocks(_, _)
filterBlocks(content, allowedIDs) ==
    IF content = <<>> THEN <<>>
    ELSE (IF Head(content).type = "tool_use" /\ Head(content).id \notin allowedIDs
          THEN <<>> ELSE <<Head(content)>>)
         \o filterBlocks(Tail(content), allowedIDs)

\* filterToolUse(msg, allowedIDs)
filterToolUse(msg, allowedIDs) ==
    [role |-> msg.role, content |-> filterBlocks(msg.content, allowedIDs)]

\* hasContent(msg)
hasContent(msg) == Len(msg.content) > 0

\* a plausible slip: without a following user message the message is
\* appended as it is
repairStep_keepOrphans(messages, i) ==
    LET msg == messages[i] IN
    IF msg.role = "assistant" /\ Len(extractToolUseIDs(msg.content)) > 0
          /\ i + 1 <= Len(messages) /\ messages[i + 1].role = "user"
    THEN LET filteredMsg ==
                 filterToolUse(msg, matchedIDsOf(extractToolResultIDs(messages[i + 1].content)))
         IN IF hasContent(filteredMsg) THEN <<filteredMsg>> ELSE <<>>
    ELSE <<msg>>

\* a plausible slip: the role of the message is not looked at
repairStep_anyRole(messages, i) ==
    LET msg == messages[i] IN
    IF Len(extractToolUseIDs(msg.content)) > 0
    THEN LET allowed ==
                 IF i + 1 <= Len(messages) /\ messages[i + 1].role = "user"
                 THEN matchedIDsOf(extractToolResultIDs(messages[i + 1].content))
                 ELSE {}
             filteredMsg == filterToolUse(msg, allowed)
         IN IF hasContent(filteredMsg) THEN <<filteredMsg>> ELSE <<>>
    ELSE <<msg>>

\* the body of the loop of repairMessageHistory for messages[i]: what is
\* appended to result
repairStep(messages, i) ==
    LET msg == messages[i] IN
    IF msg.role = "assistant" /\ Len(extractToolUseIDs(msg.content)) > 0
    THEN LET allowed ==
                 IF i + 1 <= Len(messages) /\ messages[i + 1].role = "user"
                 THEN matchedIDsOf(extractToolResultIDs(messages[i + 1].content))
                 ELSE {}
             filteredMsg == filterToolUse(msg, allowed)
         IN IF hasContent(filteredMsg) THEN <<filteredMsg>> ELSE <<>>
    ELSE <<msg>>

RECURSIVE repairFrom(_, _, _)
\* for i := ...; i < len(messages); i++ { ... result = append(result, ...) }
repairFrom(messages, i, result) ==
    IF i > Len(messages) THEN result
    ELSE repairFrom(messages, i + 1, result \o repairStep(messages, i))

\* repairMessageHistory(messages)
repairMessageHistory(messages) ==
    IF Len(messages) = 0 THEN messages ELSE repairFrom(messages, 1, <<>>)

RECURSIVE CountBlocks(_)
CountBlocks(messages) ==
    IF messages = <<>> THEN 0
    ELSE Len(Head(messages).content) + CountBlocks(Tail(messages))

InitRepair == IdIdle /\ ConcIdle /\ StreamIdle /\ RepairIdle /\ CallIdle /\ BuildIdle /\ ConvIdle /\ SessIdle /\ MemIdle

\* buildMessageParams: msg, err := m.convertContentToMessage(content);
\* messages = append(messages, *msg), for a content whose first block is b
\* (a content that gives no block gives no message)
AppendMessage(role, b) ==
    /\ rPc = "build"
    /\ Len(rIn) < MaxMsgs
    /\ CountBlocks(rIn) < MaxBlocks
    /\ rIn' = Append(rIn, [role |-> role, content |-> <<b>>])
    /\ UNCHANGED <<memVars, sessVars, convVars, callVars, qVars, buildVars, nReq, rOut, rPc, idVars, concVars, streamVars>>

\* convertContentToMessage: blocks = append(blocks, ...) for one more part of
\* the content being converted
AppendBlock(b) ==
    /\ rPc = "build"
    /\ Len(rIn) > 0
    /\ CountBlocks(rIn) < MaxBlocks
    /\ rIn' = [rIn EXCEPT ![Len(rIn)].content = Append(@, b)]
    /\ UNCHANGED <<memVars, sessVars, convVars, callVars, qVars, buildVars, nReq, rOut, rPc, idVars, concVars, streamVars>>

\* buildMessageParams: messages = repairMessageHistory(messages);
\* params.Messages = messages
Repair ==
    /\ rPc = "build"
    /\ rOut' = repairMessageHistory(rIn)
    /\ rPc' = "done"
    /\ UNCHANGED <<memVars, sessVars, convVars, callVars, qVars, buildVars, nReq, rIn, idVars, concVars, streamVars>>

NextRepair ==
    \/ \E role \in Roles, b \in Blocks : AppendMessage(role, b)
    \/ \E b \in Blocks : AppendBlock(b)
    \/ Repair

SpecRepair == InitRepair /\ [][NextRepair]_vars

-----------------------------------------------------------------------------
(* Claims about history repair *)

HasToolResult(msg, id) ==
    \E k \in 1..Len(msg.content) :
        msg.content[k].type = "tool_result" /\ msg.content[k].id = id

\* every tool_use block of an assistant message is answered by the next
\* message of the list, a user message with a tool_result of the same ID
ProtocolValid(messages) ==
    \A i \in 1..Len(messages) :
        messages[i].role = "assistant" =>
            \A k \in 1..Len(messages[i].content) :
                messages[i].content[k].type = "tool_use" =>
                    /\ i + 1 <= Len(messages)
                    /\ messages[i + 1].role = "user"
                    /\ HasToolResult(messages[i + 1], messages[i].content[k].id)

\* C1: the output of repairMessageHistory is protocol-valid for every input
\* list: each tool_use block left in an assistant message is immediately
\* followed by a user message carrying a tool_result block with the same ID.
C1_RepairValid == rPc = "done" => ProtocolValid(rOut)

\* a list that was not valid was repaired, a tool_use block was dropped and
\* another one survived with its tool_result
C1_Witness ==
    /\ rPc = "done"
    /\ ~ProtocolValid(rIn)
    /\ rOut # rIn
    /\ \E i \in 1..Len(rOut) :
        rOut[i].role = "assistant" /\ Len(extractToolUseIDs(rOut[i].content)) > 0

BearsToolUse(msg) ==
    \E k \in 1..Len(msg.content) : msg.content[k].type = "tool_use"

FollowedByUser(messages, i) == i < Len(messages) /\ messages[i + 1].role = "user"

\* the assistant messages history repair looks into
Repaired(messages, i) == messages[i].role = "assistant" /\ BearsToolUse(messages[i])

\* what is to stay of message i: of a message repair looks into, the blocks
\* that are no tool_use and the tool_use blocks answered by the user message
\* that follows; of any other message, everything
KeptBlocks(messages, i) ==
    IF Repaired(messages, i)
    THEN SelectSeq(messages[i].content,
                   LAMBDA b : \/ b.type # "tool_use"
                              \/ /\ FollowedByUser(messages, i)
                                 /\ HasToolResult(messages[i + 1], b.id))
    ELSE messages[i].content

\* the place in the output of input message i, if something stays of it
OutPos(messages, i) ==
    Cardinality({j \in 1..i : Len(KeptBlocks(messages, j)) > 0})

RECURSIVE IsSubSeq(_, _)
\* a is b with some elements left out
IsSubSeq(a, b) ==
    IF a = <<>> THEN TRUE
    ELSE IF b = <<>> THEN FALSE
    ELSE IF Head(a) = Head(b) THEN IsSubSeq(Tail(a), Tail(b))
    ELSE IsSubSeq(a, Tail(b))

RECURSIVE AllToolResults(_)
\* the tool_result blocks of a list of messages, in order
AllToolResults(messages) ==
    IF messages = <<>> THEN <<>>
    ELSE SelectSeq(Head(messages).content, LAMBDA b : b.type = "tool_result")
         \o AllToolResults(Tail(messages))

\* C12: an assistant message with tool_use blocks that is immediately
\* followed by a user message keeps exactly the tool_use blocks whose ID is
\* among the tool_result IDs of that user message, and all its other blocks,
\* in their order; it is in the output unless no block remains, and the user
\* message follows in the output, unchanged.
C12_MatchedKept ==
    rPc = "done" =>
        \A i \in 1..Len(rIn) :
            (Repaired(rIn, i) /\ FollowedByUser(rIn, i)) =>
                /\ OutPos(rIn, i + 1) <= Len(rOut)
                /\ rOut[OutPos(rIn, i + 1)] = rIn[i + 1]
                /\ KeptBlocks(rIn, i) # <<>> =>
                        /\ OutPos(rIn, i + 1) = OutPos(rIn, i) + 1
                        /\ rOut[OutPos(rIn, i)] =
                               [role |-> "assistant", content |-> KeptBlocks(rIn, i)]
                /\ KeptBlocks(rIn, i) = <<>> =>
                        \/ OutPos(rIn, i + 1) = 1
                        \/ /\ i > 1
                           /\ rOut[OutPos(rIn, i + 1) - 1].content
                                  = KeptBlocks(rIn, CHOOSE j \in 1..(i - 1) :
                                        /\ KeptBlocks(rIn, j) # <<>>
                                        /\ \A k \in (j + 1)..(i - 1) : KeptBlocks(rIn, k) = <<>>)

\* tool_use "a" and "b" followed by a user message answering one of them:
\* the assistant message is left with that one
C12_Witness ==
    /\ rPc = "done"
    /\ \E i \in 1..Len(rIn) :
        /\ Repaired(rIn, i) /\ FollowedByUser(rIn, i)
        /\ Len(extractToolUseIDs(rIn[i].content)) = 2
        /\ Len(extractToolUseIDs(KeptBlocks(rIn, i))) = 1
        /\ rOut[OutPos(rIn, i)].content = KeptBlocks(rIn, i)

\* a tool_use answered by the second tool_result of the user message
C12_WitnessSecond ==
    /\ rPc = "done"
    /\ \E i \in 1..Len(rIn) :
        /\ Repaired(rIn, i) /\ FollowedByUser(rIn, i)
        /\ Len(extractToolResultIDs(rIn[i + 1].content)) = 2
        /\ extractToolUseIDs(KeptBlocks(rIn, i)) = <<rIn[i + 1].content[2].id>>
        /\ rIn[i + 1].content[1].id # rIn[i + 1].content[2].id

\* C13: an assistant message with tool_use blocks that is the last message
\* or is followed by a message that is no user message loses all its
\* tool_use blocks; it stays with its other blocks if it has any, and is
\* dropped otherwise.
C13_OrphansDropped ==
    rPc = "done" =>
        /\ Len(rOut) = OutPos(rIn, Len(rIn))
        /\ \A i \in 1..Len(rIn) :
            (Repaired(rIn, i) /\ ~FollowedByUser(rIn, i)) =>
                /\ KeptBlocks(rIn, i)
                       = SelectSeq(rIn[i].content, LAMBDA b : b.type # "tool_use")
                /\ KeptBlocks(rIn, i) # <<>> =>
                        /\ OutPos(rIn, i) <= Len(rOut)
                        /\ rOut[OutPos(rIn, i)] =
                               [role |-> "assistant", content |-> KeptBlocks(rIn, i)]
                /\ KeptBlocks(rIn, i) = <<>> =>
                        OutPos(rIn, i) = IF i = 1 THEN 0 ELSE OutPos(rIn, i - 1)

\* an assistant message with nothing but a tool_use, followed by an assistant
\* message, was dropped, and a last assistant message was left with its text
C13_Witness ==
    /\ rPc = "done"
    /\ Len(rIn) >= 2
    /\ Repaired(rIn, 1) /\ ~FollowedByUser(rIn, 1) /\ KeptBlocks(rIn, 1) = <<>>
    /\ Repaired(rIn, Len(rIn)) /\ KeptBlocks(rIn, Len(rIn)) # <<>>
    /\ Len(rOut) = Len(rIn) - 1

\* C14: every user message and every assistant message without tool_use
\* blocks is in the output as it is in the input; no tool_result block is
\* removed; the messages of the output are those of the input of which
\* something stays, in the input's order, each with blocks of its input
\* message only.
C14_OthersUnchanged ==
    rPc = "done" =>
        /\ Len(rOut) = OutPos(rIn, Len(rIn))
        /\ \A i \in 1..Len(rIn) :
            /\ ~Repaired(rIn, i) =>
                    /\ OutPos(rIn, i) \in 1..Len(rOut)
                    /\ rOut[OutPos(rIn, i)] = rIn[i]
            /\ (OutPos(rIn, i) \in 1..Len(rOut) /\ KeptBlocks(rIn, i) # <<>>) =>
                    /\ rOut[OutPos(rIn, i)].role = rIn[i].role
                    /\ IsSubSeq(rOut[OutPos(rIn, i)].content, rIn[i].content)
        /\ AllToolResults(rOut) = AllToolResults(rIn)
        /\ CountBlocks(rOut) <= CountBlocks(rIn)

\* a user message bearing a tool_use block and an assistant message without
\* one went through unchanged while another message was dropped
C14_Witness ==
    /\ rPc = "done"
    /\ Len(rOut) < Len(rIn)
    /\ \E i, j \in 1..Len(rIn) :
        /\ rIn[i].role = "user" /\ BearsToolUse(rIn[i])
        /\ rIn[j].role = "assistant" /\ ~BearsToolUse(rIn[j])
        /\ rOut[OutPos(rIn, i)] = rIn[i]
        /\ rOut[OutPos(rIn, j)] = rIn[j]

\* C29: history repair is idempotent: repairing the repaired history gives
\* the repaired history again, also when the first pass dropped a whole
\* assistant message and so made two separated messages adjacent.
C29_Idempotent ==
    rPc = "done" => repairMessageHistory(rOut) = rOut

\* an assistant message between two other messages was dropped, so that its
\* neighbours are adjacent in the output, and a tool_use block of another
\* assistant message went through
C29_Witness ==
    /\ rPc = "done"
    /\ Len(rIn) = 3
    /\ Repaired(rIn, 2) /\ KeptBlocks(rIn, 2) = <<>>
    /\ rOut = <<rIn[1], rIn[3]>>

\* a tool_use block survived the first pass while a later assistant message
\* was dropped
C29_WitnessSurvivor ==
    /\ rPc = "done"
    /\ Len(rOut) < Len(rIn)
    /\ \E i \in 1..Len(rOut) :
        rOut[i].role = "assistant" /\ BearsToolUse(rOut[i])

-----------------------------------------------------------------------------
(* The request builders.  A genai.Part carries one of Text, InlineData,     *)
(* FunctionCall, FunctionResponse; "ok" says whether json.Marshal accepts   *)
(* the Args / Response of a function part, or whether the MIME type of an   *)
(* InlineData part is a supported image type.                               *)

\* number of parts of the content handed to convertContentToMessages
MaxParts == 3
\* number of parts in all the contents of the request of one call
MaxReqParts == 2

TextPart(s) == [kind |-> "Text", id |-> <<>>, text |-> s, ok |-> TRUE]
BlobPart(supported) == [kind |-> "InlineData", id |-> <<>>, text |-> "", ok |-> supported]
CallPart(id, ok) == [kind |-> "FunctionCall", id |-> id, text |-> "", ok |-> ok]
ResponsePart(id, ok) == [kind |-> "FunctionResponse", id |-> id, text |-> "", ok |-> ok]

\* convertRole: "model" is "assistant", any other role is itself
convertRole(role) == IF role = "model" THEN "assistant" ELSE role

RECURSIVE joinTexts(_)
\* strings.Join(texts, "\n")
joinTexts(texts) ==
    IF texts = <<>> THEN ""
    ELSE IF Len(texts) = 1 THEN texts[1]
    ELSE texts[1] \o "\n" \o joinTexts(Tail(texts))

\* openai.ChatCompletionMessageParamUnion: the role, the tool call answered
\* (tool messages), the string content, the content parts, the tool calls
WireMessage(role, toolCallID, content, parts, toolCalls) ==
    [role |-> role, toolCallID |-> toolCallID, content |-> content,
     parts |-> parts, toolCalls |-> toolCalls]

\* openai.ToolMessage(string(responseJSON), normalizedID)
ToolMessage(part, normalizedID) ==
    WireMessage("tool", normalizedID, "json", <<>>, <<>>)

\* convertInlineDataToImage: nil (here <<>>) unless the MIME type is supported
convertInlineDataToImage(part) ==
    IF part.ok THEN <<[type |-> "image_url", text |-> ""]>> ELSE <<>>

\* buildUserMessage(texts, images)
buildUserMessage(texts, images) ==
    IF Len(images) = 0
    THEN WireMessage("user", <<>>, joinTexts(texts), <<>>, <<>>)
    ELSE WireMessage("user", <<>>, "",
                     [i \in 1..Len(texts) |-> [type |-> "text", text |-> texts[i]]]
                         \o images,
                     <<>>)

\* buildAssistantMessage(texts, toolCalls)
buildAssistantMessage(texts, toolCalls) ==
    WireMessage("assistant", <<>>,
                IF Len(texts) > 0 THEN joinTexts(texts) ELSE "", <<>>, toolCalls)

\* a plausible slip: every role gets a user message
buildRoleMessage_user(role, texts, images, toolCalls) ==
    <<buildUserMessage(texts, images)>>

\* buildRoleMessage: the message of the role, nil (here <<>>) for a role
\* that is none of "user", "assistant", "system"
buildRoleMessage(role, texts, images, toolCalls) ==
    CASE convertRole(role) = "user" -> <<buildUserMessage(texts, images)>>
      [] convertRole(role) = "assistant" -> <<buildAssistantMessage(texts, toolCalls)>>
      [] convertRole(role) = "system" ->
            <<WireMessage("system", <<>>, joinTexts(texts), <<>>, <<>>)>>
      [] OTHER -> <<>>

\* json.Marshal(part.FunctionResponse.Response) or
\* json.Marshal(part.FunctionCall.Args) returns an error
OAIMarshalFails(part) ==
    part.kind \in {"FunctionResponse", "FunctionCall"} /\ ~part.ok

\* the part at which the loop of convertContentToMessages returns the error
\* of json.Marshal, 0 if it runs to the end
OAIFirstError(parts) ==
    IF \E k \in 1..Len(parts) : OAIMarshalFails(parts[k])
    THEN CHOOSE k \in 1..Len(parts) :
             /\ OAIMarshalFails(parts[k])
             /\ \A j \in 1..(k - 1) : ~OAIMarshalFails(parts[j])
    ELSE 0

RECURSIVE OAINormalizeParts(_, _, _)
\* the ID table after the first n turns of the loop: normalizeToolCallID for
\* each function part
OAINormalizeParts(m, parts, n) ==
    IF n = 0 THEN m
    ELSE IF parts[n].kind \in {"FunctionResponse", "FunctionCall"}
    THEN normalizeToolCallID(OAINormalizeParts(m, parts, n - 1), parts[n].id).map
    ELSE OAINormalizeParts(m, parts, n - 1)

RECURSIVE OAICollect(_, _, _)
\* what the first n turns of the loop appended to the list named by what:
\* messages (case part.FunctionResponse), toolCalls (case part.FunctionCall),
\* textParts (case part.Text != ""), imageParts (case part.InlineData)
OAICollect(what, parts, n) ==
    IF n = 0 THEN <<>>
    ELSE OAICollect(what, parts, n - 1) \o
         (CASE what = "messages" /\ parts[n].kind = "FunctionResponse" ->
                  <<ToolMessage(parts[n], normalizeToolCallID(EmptyMap, parts[n].id).ret)>>
            [] what = "toolCalls" /\ parts[n].kind = "FunctionCall" ->
                  <<[id |-> normalizeToolCallID(EmptyMap, parts[n].id).ret]>>
            [] what = "textParts" /\ parts[n].kind = "Text" /\ parts[n].text # "" ->
                  <<parts[n].text>>
            [] what = "imageParts" /\ parts[n].kind = "InlineData" ->
                  convertInlineDataToImage(parts[n])
            [] OTHER -> <<>>)

\* convertContentToMessages on the ID table m: the messages, the error ("" for
\* nil) and the table after.  The four lists of the loop are computed one by
\* one; the value normalizeToolCallID returns does not depend on the table.
convertContentToMessages(m, content) ==
    IF OAIFirstError(content.parts) # 0
    THEN [messages |-> <<>>,
          err |-> IF content.parts[OAIFirstError(content.parts)].kind = "FunctionResponse"
                  THEN "failed to marshal function response"
                  ELSE "failed to marshal function args",
          map |-> OAINormalizeParts(m, content.parts, OAIFirstError(content.parts) - 1)]
    ELSE [messages |->
              OAICollect("messages", content.parts, Len(content.parts)) \o
              (IF \/ Len(OAICollect("textParts", content.parts, Len(content.parts))) > 0
                  \/ Len(OAICollect("imageParts", content.parts, Len(content.parts))) > 0
                  \/ Len(OAICollect("toolCalls", content.parts, Len(content.parts))) > 0
               THEN buildRoleMessage(
                        content.role,
                        OAICollect("textParts", content.parts, Len(content.parts)),
                        OAICollect("imageParts", content.parts, Len(content.parts)),
                        OAICollect("toolCalls", content.parts, Len(content.parts)))
               ELSE <<>>),
          err |-> "",
          map |-> OAINormalizeParts(m, content.parts, Len(content.parts))]

RECURSIVE OAIConvertContents(_, _, _, _)
\* buildChatCompletionParams: for _, content := range req.Contents
OAIConvertContents(m, contents, i, messages) ==
    IF i > Len(contents) THEN [messages |-> messages, err |-> "", map |-> m]
    ELSE LET r == convertContentToMessages(m, contents[i]) IN
         IF r.err # "" THEN [messages |-> <<>>, err |-> r.err, map |-> r.map]
         ELSE OAIConvertContents(r.map, contents, i + 1, messages \o r.messages)

\* buildChatCompletionParams(req): the Config is applied only when it is
\* there (applyGenerationConfig returns nothing and drops the errors of
\* convertSchema and convertTools)
buildChatCompletionParams(m, req) == OAIConvertContents(m, req.contents, 1, <<>>)

\* convertToolInputToRaw: "{}" when json.Marshal fails (and for nil input)
convertToolInputToRaw(part) == IF part.ok THEN "args" ELSE "{}"

\* convertRoleToAnthropic: "model" is assistant, anything else is user
convertRoleToAnthropic(role) == IF role = "model" THEN "assistant" ELSE "user"

\* one turn of the loop of the anthropic convertContentToMessage: the
\* blocks it appends
AnthConvertBlock(part) ==
    CASE part.kind = "Text" /\ part.text # "" ->
            <<[type |-> "text", id |-> <<>>, input |-> ""]>>
      [] part.kind = "InlineData" /\ part.ok ->
            <<[type |-> "image", id |-> <<>>, input |-> ""]>>
      [] part.kind = "FunctionCall" ->
            <<[type |-> "tool_use", id |-> sanitizeToolID(part.id),
               input |-> convertToolInputToRaw(part)]>>
      [] part.kind = "FunctionResponse" ->
            <<[type |-> "tool_result", id |-> sanitizeToolID(part.id), input |-> ""]>>
      [] OTHER -> <<>>

\* json.Marshal(part.FunctionResponse.Response) returns an error
AnthMarshalFails(part) == part.kind = "FunctionResponse" /\ ~part.ok

RECURSIVE AnthBlocks(_, _)
\* blocks after the first n turns of the loop
AnthBlocks(parts, n) ==
    IF n = 0 THEN <<>> ELSE AnthBlocks(parts, n - 1) \o AnthConvertBlock(parts[n])

\* anthropic convertContentToMessage: the message (none when the content
\* gives no block) and the error of the first json.Marshal that fails
convertContentToMessage(content) ==
    IF \E k \in 1..Len(content.parts) : AnthMarshalFails(content.parts[k])
    THEN [messages |-> <<>>, err |-> "failed to marshal function response"]
    ELSE IF Len(AnthBlocks(content.parts, Len(content.parts))) = 0
    THEN [messages |-> <<>>, err |-> ""]
    ELSE [messages |-> <<[role |-> convertRoleToAnthropic(content.role),
                         content |-> AnthBlocks(content.parts, Len(content.parts))]>>,
          err |-> ""]

RECURSIVE AnthConvertContents(_, _, _)
\* buildMessageParams: for _, content := range req.Contents
AnthConvertContents(contents, i, messages) ==
    IF i > Len(contents) THEN [messages |-> messages, err |-> ""]
    ELSE LET r == convertContentToMessage(contents[i]) IN
         IF r.err # "" THEN [messages |-> <<>>, err |-> r.err]
         ELSE AnthConvertContents(contents, i + 1, messages \o r.messages)

\* buildMessageParams(req): the converted contents, repaired; MaxTokens has
\* a default, the other settings are applied only when the Config is there,
\* and convertTools returns no error
buildMessageParams(req) ==
    LET r == AnthConvertContents(req.contents, 1, <<>>) IN
    IF r.err # "" THEN [messages |-> <<>>, err |-> r.err]
    ELSE [messages |-> repairMessageHistory(r.messages), err |-> ""]

\* the params builder of the vendor: the error ("" for nil) and the ID table
BuildParams(vendor, m, req) ==
    IF vendor = "openai"
    THEN LET r == buildChatCompletionParams(m, req) IN [err |-> r.err, map |-> r.map]
    ELSE [err |-> buildMessageParams(req).err, map |-> m]

-----------------------------------------------------------------------------
(* The requests of the model *)

\* the parts of the contents of a request: a text, and function parts whose
\* Args / Response json.Marshal accepts or rejects (a map holding a channel
\* or a func, say); their IDs are short and need no rewriting
ReqParts == {TextPart("hi"),
             CallPart(<<"a">>, TRUE), CallPart(<<"a">>, FALSE),
             ResponsePart(<<"a">>, TRUE), ResponsePart(<<"a">>, FALSE)}

\* genai.Content with k parts
ContentsWith(k) ==
    {[role |-> ro, parts |-> ps] : ro \in {"user", "model"}, ps \in [1..k -> ReqParts]}

RECURSIVE ContentListsWith(_)
\* req.Contents with n parts in all
ContentListsWith(n) ==
    IF n = 0 THEN {<<>>}
    ELSE UNION {{<<c>> \o r : c \in ContentsWith(k), r \in ContentListsWith(n - k)} :
                    k \in 1..n}

\* model.LLMRequest: Config nil or not (a Config that is there has every
\* optional field unset or set), and the contents
Requests ==
    {[config |-> c, contents |-> cs] :
        c \in BOOLEAN, cs \in UNION {ContentListsWith(n) : n \in 0..MaxReqParts}}

\* the request has a part of the kind whose payload json.Marshal rejects
HasBadPart(req, kind) ==
    \E i \in 1..Len(req.contents) :
        \E k \in 1..Len(req.contents[i].parts) :
            req.contents[i].parts[k].kind = kind /\ ~req.contents[i].parts[k].ok

-----------------------------------------------------------------------------
(* SpecCall: one call of GenerateContent on either adapter, streaming or    *)
(* not, for any request.  generate is three steps: the params are built,    *)
(* the request is sent and answered, the response is converted and yielded. *)
(* The streaming call is the one of SpecStream.                             *)

\* the vendor's answer to a non-streaming request: the message contents of
\* the choices (Chat Completions) or the texts of the content blocks
\* (Messages); the empty list is a response without choices / content
Responses == {<<>>, <<"">>, <<"Hello">>, <<"Hel", "lo">>}

\* &model.LLMResponse{Content: ..., TurnComplete: true}
FullResponse(parts) ==
    [type |-> "resp", partial |-> FALSE, turnComplete |-> TRUE,
     parts |-> parts, err |-> ""]

\* openai convertResponse: ErrNoChoicesInResponse without choices, otherwise
\* the content of the first choice, as a Text part if it is not empty
OAIConvertResponse(resp) ==
    IF Len(resp) = 0 THEN ErrItem("ErrNoChoicesInResponse")
    ELSE FullResponse(IF resp[1] # "" THEN <<resp[1]>> ELSE <<>>)

\* anthropic convertResponse: one Text part per text block, never an error
AnthConvertResponse(resp) == FullResponse(resp)

InitCall == IdIdle /\ ConcIdle /\ StreamIdle /\ RepairIdle /\ CallIdle /\ BuildIdle /\ ConvIdle /\ SessIdle /\ MemIdle

\* GenerateContent(ctx, req, false), generate up to the request:
\* params, err := m.build...Params(req); if err != nil { yield(nil, err); return }
GenStart(vendor, req) ==
    /\ gPc = "idle"
    /\ sPc = "idle"
    /\ gVendor' = vendor
    /\ qConfig' = req.config
    /\ qBadArgs' = HasBadPart(req, "FunctionCall")
    /\ qBadResp' = HasBadPart(req, "FunctionResponse")
    /\ toolCallIDMap' = BuildParams(vendor, toolCallIDMap, req).map
    /\ IF BuildParams(vendor, toolCallIDMap, req).err # ""
       THEN /\ gEmitted' = <<ErrItem("build")>>
            /\ gPc' = "done"
       ELSE /\ gEmitted' = gEmitted
            /\ gPc' = "built"
    /\ UNCHANGED <<memVars, sessVars, convVars, gResp, nReq, buildVars, idLog, calls, lastDenorm, concVars,
                   streamVars, repairVars>>

\* a plausible slip: a failed request is sent a second time
GenSend_retry(fails, resp) ==
    /\ gPc = "built"
    /\ nReq' = IF fails THEN nReq + 2 ELSE nReq + 1
    /\ IF fails
       THEN /\ gEmitted' = Append(gEmitted, ErrItem("transport"))
            /\ gPc' = "done"
            /\ gResp' = gResp
       ELSE /\ gResp' = resp
            /\ gPc' = "sent"
            /\ gEmitted' = gEmitted
    /\ UNCHANGED <<memVars, sessVars, convVars, gVendor, qVars, buildVars, idVars, concVars, streamVars, repairVars>>

\* resp, err := m.client...New(ctx, params);
\* if err != nil { yield(nil, err); return }
GenSend(fails, resp) ==
    /\ gPc = "built"
    /\ nReq' = nReq + 1
    /\ IF fails
       THEN /\ gEmitted' = Append(gEmitted, ErrItem("transport"))
            /\ gPc' = "done"
            /\ gResp' = gResp
       ELSE /\ gResp' = resp
            /\ gPc' = "sent"
            /\ gEmitted' = gEmitted
    /\ UNCHANGED <<memVars, sessVars, convVars, gVendor, qVars, buildVars, idVars, concVars, streamVars, repairVars>>

\* llmResp, err := m.convertResponse(resp);
\* if err != nil { yield(nil, err); return }; yield(llmResp, nil)
GenConvert ==
    /\ gPc = "sent"
    /\ gEmitted' = Append(gEmitted, IF gVendor = "openai"
                                    THEN OAIConvertResponse(gResp)
                                    ELSE AnthConvertResponse(gResp))
    /\ gPc' = "done"
    /\ UNCHANGED <<memVars, sessVars, convVars, gVendor, gResp, nReq, qVars, buildVars, idVars, concVars,
                   streamVars, repairVars>>

\* GenerateContent(ctx, req, true): generateStream for the request req
CallStream(vendor, req) ==
    /\ gPc = "idle"
    /\ qConfig' = req.config
    /\ qBadArgs' = HasBadPart(req, "FunctionCall")
    /\ qBadResp' = HasBadPart(req, "FunctionResponse")
    /\ StreamStart(vendor, BuildParams(vendor, toolCallIDMap, req).err # "")

NextCall ==
    \/ \E vendor \in Vendors, req \in Requests : GenStart(vendor, req)
    \/ \E fails \in BOOLEAN, resp \in Responses : GenSend(fails, resp)
    \/ GenConvert
    \/ \E vendor \in Vendors, req \in Requests : CallStream(vendor, req)
    \/ \E chunk \in OAIChunks, ok \in BOOLEAN : OAIChunk(chunk, ok)
    \/ \E ev \in AnthEvents, accFails \in BOOLEAN, ok \in BOOLEAN :
           AnthEvent(ev, accFails, ok)
    \/ \E err \in BOOLEAN : StreamEnd(err)

SpecCall == InitCall /\ [][NextCall]_vars

-----------------------------------------------------------------------------
(* Claims about whole calls *)

\* the items of the call, whichever way it was made
CallItems == IF gPc # "idle" THEN gEmitted ELSE sEmitted

\* building the params failed: the call returned on the first error check
BuildFailed ==
    \/ gPc = "done" /\ nReq = 0
    \/ sEnd = "buildErr"

CallStarted == gPc # "idle" \/ sPc # "idle"

IsMalformedResponseError(it) ==
    it.type = "err" /\ it.err \in {"ErrNoChoicesInResponse", "ErrNoContentInResponse"}

\* C11: for both vendors, a non-streaming response with an empty choice list
\* (Chat Completions) or content list (Messages), and a stream that completed
\* with such an aggregated state, give the error ErrNoChoicesInResponse /
\* ErrNoContentInResponse, and no response is emitted for the call.
C11_EmptyIsError ==
    /\ (gPc = "done" /\ gResp = <<>>) =>
            /\ Len(gEmitted) = 1
            /\ IsMalformedResponseError(gEmitted[1])
    /\ (sEnd = "complete" /\ sAcc = <<>>) =>
            /\ IsMalformedResponseError(sEmitted[Len(sEmitted)])
            /\ \A i \in 1..Len(sEmitted) : sEmitted[i].type # "resp"

\* what the Chat Completions adapter does for a non-streaming response
\* without choices: the one item of the call is ErrNoChoicesInResponse
C11_OpenAINonStreaming ==
    (gVendor = "openai" /\ gPc = "done" /\ gResp = <<>>) =>
        gEmitted = <<ErrItem("ErrNoChoicesInResponse")>>

\* C19 as stated: building the request fails exactly when the request has a
\* function part whose arguments or response json.Marshal rejects, whether
\* the Config is there or not; when it fails, the call yields one item, the
\* error, and no request is issued.
C19_BuildFailsIffSerialization ==
    CallStarted =>
        /\ BuildFailed <=> (qBadArgs \/ qBadResp)
        /\ BuildFailed => (CallItems = <<ErrItem("build")>> /\ nReq = 0)

\* what holds of both builders: building fails only on a part json.Marshal
\* rejects, always on a rejected function response, and then the call yields
\* the error alone and issues no request
C19_FailsOnlyOnSerialization ==
    CallStarted =>
        /\ BuildFailed => (qBadArgs \/ qBadResp)
        /\ qBadResp => BuildFailed
        /\ BuildFailed => (CallItems = <<ErrItem("build")>> /\ nReq = 0)

\* C20: every call, streaming or not, issues at most one request, also when
\* the transport fails, and a non-streaming call yields exactly one item when
\* it returns and none before: a response with partial = false and
\* turnComplete = true, or an error.
C20_OneRequest ==
    /\ nReq <= 1
    /\ (gPc = "done" /\ Len(gEmitted) > 0 /\ gEmitted[1] = ErrItem("transport")) =>
            nReq = 1
    /\ sEnd = "transportErr" => nReq = 1
    /\ gPc = "done" =>
            /\ Len(gEmitted) = 1
            /\ \/ IsFinal(gEmitted[1])
               \/ gEmitted[1].type = "err"
    /\ gPc \in {"built", "sent"} => gEmitted = <<>>

\* a non-streaming call whose request failed in the transport has returned
C20_Witness ==
    /\ gPc = "done"
    /\ gEmitted = <<ErrItem("transport")>>
    /\ nReq = 1

\* a non-streaming call returned a response
C20_WitnessResponse ==
    /\ gPc = "done"
    /\ IsFinal(gEmitted[1])
    /\ gEmitted[1].parts = <<"Hello">>

-----------------------------------------------------------------------------
(* SpecBuild: the Chat Completions builder converts one content, which the  *)
(* caller assembled part by part, on an adapter instance with an empty ID   *)
(* table.                                                                   *)

\* content.Role: the three roles of genai and a role that is none of them
BuildRoles == {"user", "model", "system", "tool"}

\* the parts of the content: function parts with an ID under and over the
\* limit of 40 characters and with a payload json.Marshal rejects, a text,
\* a part with nothing set, a supported image and a blob of another type
BuildParts ==
    {ResponsePart(Fill("a", 1), TRUE), ResponsePart(Fill("a", maxToolCallIDLength + 1), TRUE),
     ResponsePart(Fill("a", 1), FALSE),
     CallPart(Fill("a", 1), TRUE), CallPart(Fill("a", maxToolCallIDLength + 1), TRUE),
     CallPart(Fill("a", 1), FALSE),
     TextPart("Hel"), TextPart(""), BlobPart(TRUE), BlobPart(FALSE)}

InitBuild == IdIdle /\ ConcIdle /\ StreamIdle /\ RepairIdle /\ CallIdle /\ BuildIdle /\ ConvIdle /\ SessIdle /\ MemIdle

\* the caller appends a part to content.Parts
AddPart(part) ==
    /\ bPc = "build"
    /\ Len(bContent.parts) < MaxParts
    /\ bContent' = [bContent EXCEPT !.parts = Append(@, part)]
    /\ UNCHANGED <<memVars, sessVars, convVars, bOut, bPc, idVars, concVars, streamVars, repairVars, callVars,
                   qVars, nReq>>

\* msgs, err := m.convertContentToMessages(content), for the content with
\* the role given
ConvertContent(role) ==
    /\ bPc = "build"
    /\ bContent' = [bContent EXCEPT !.role = role]
    /\ bOut' = [messages |-> convertContentToMessages(toolCallIDMap, bContent').messages,
                err |-> convertContentToMessages(toolCallIDMap, bContent').err]
    /\ toolCallIDMap' = convertContentToMessages(toolCallIDMap, bContent').map
    /\ bPc' = "done"
    /\ UNCHANGED <<memVars, sessVars, convVars, idLog, calls, lastDenorm, concVars, streamVars, repairVars, callVars,
                   qVars, nReq>>

NextBuild ==
    \/ \E part \in BuildParts : AddPart(part)
    \/ \E role \in BuildRoles : ConvertContent(role)

SpecBuild == InitBuild /\ [][NextBuild]_vars

-----------------------------------------------------------------------------
(* Claims about the Chat Completions request builder *)

\* the ID as the Chat Completions adapter sends it
AdaptedID(id) == IF Len(id) <= maxToolCallIDLength THEN id ELSE shortIDOf(id)

ResponsePartsOf(content) ==
    SelectSeq(content.parts, LAMBDA q : q.kind = "FunctionResponse")

\* the parts that remain once the function responses are lifted out: the
\* texts, the images (blobs of a supported image type), the function calls
RemainingTexts(content) ==
    LET ps == SelectSeq(content.parts, LAMBDA q : q.kind = "Text" /\ q.text # "")
    IN [k \in 1..Len(ps) |-> ps[k].text]

RemainingImages(content) ==
    SelectSeq(content.parts, LAMBDA q : q.kind = "InlineData" /\ q.ok)

RemainingCalls(content) ==
    LET ps == SelectSeq(content.parts, LAMBDA q : q.kind = "FunctionCall")
    IN [k \in 1..Len(ps) |-> AdaptedID(ps[k].id)]

SomethingRemains(content) ==
    \/ Len(RemainingTexts(content)) > 0
    \/ Len(RemainingImages(content)) > 0
    \/ Len(RemainingCalls(content)) > 0

\* the texts, the number of images and the tool-call IDs a wire message carries
TextsIn(msg, texts) ==
    IF Len(msg.parts) > 0
    THEN LET ps == SelectSeq(msg.parts, LAMBDA q : q.type = "text")
         IN [k \in 1..Len(ps) |-> ps[k].text] = texts
    ELSE msg.content = joinTexts(texts)

ImagesIn(msg) == Len(SelectSeq(msg.parts, LAMBDA q : q.type = "image_url"))

CallsIn(msg) == [k \in 1..Len(msg.toolCalls) |-> msg.toolCalls[k].id]

\* one tool message per FunctionResponse part, in part order, each with the
\* adapted ID of its call, before anything else
ToolMessagesFirst(content, messages) ==
    /\ Len(messages) >= Len(ResponsePartsOf(content))
    /\ \A k \in 1..Len(ResponsePartsOf(content)) :
        /\ messages[k].role = "tool"
        /\ messages[k].toolCallID = AdaptedID(ResponsePartsOf(content)[k].id)
    /\ \A k \in (Len(ResponsePartsOf(content)) + 1)..Len(messages) :
        messages[k].role # "tool"

\* C18 as stated: a converted content gives one tool message per
\* FunctionResponse part, in part order and with the adapted ID, then at most
\* one role message, which groups all the remaining text, image and
\* function-call parts; when none remains, there is no role message.
C18_Original ==
    (bPc = "done" /\ bOut.err = "") =>
        LET n == Len(ResponsePartsOf(bContent)) IN
        /\ ToolMessagesFirst(bContent, bOut.messages)
        /\ Len(bOut.messages) <= n + 1
        /\ ~SomethingRemains(bContent) => Len(bOut.messages) = n
        /\ Len(bOut.messages) = n + 1 =>
                /\ TextsIn(bOut.messages[n + 1], RemainingTexts(bContent))
                /\ ImagesIn(bOut.messages[n + 1]) = Len(RemainingImages(bContent))
                /\ CallsIn(bOut.messages[n + 1]) = RemainingCalls(bContent)

\* C18 as amended: the same tool messages first; then, when something
\* remains and the role is user, model (assistant) or system, exactly one
\* message of that role, and none otherwise.  The role message carries the
\* remaining texts; the images only if the role is user; the function calls
\* only if the role is model; the other remaining parts are left out.
C18_RoleMessage ==
    (bPc = "done" /\ bOut.err = "") =>
        LET n == Len(ResponsePartsOf(bContent))
            role == IF bContent.role = "model" THEN "assistant" ELSE bContent.role
        IN
        /\ ToolMessagesFirst(bContent, bOut.messages)
        /\ Len(bOut.messages) =
               IF SomethingRemains(bContent) /\ role \in {"user", "assistant", "system"}
               THEN n + 1 ELSE n
        /\ Len(bOut.messages) = n + 1 =>
                /\ bOut.messages[n + 1].role = role
                /\ TextsIn(bOut.messages[n + 1], RemainingTexts(bContent))
                /\ ImagesIn(bOut.messages[n + 1]) =
                       IF role = "user" THEN Len(RemainingImages(bContent)) ELSE 0
                /\ CallsIn(bOut.messages[n + 1]) =
                       IF role = "assistant" THEN RemainingCalls(bContent) ELSE <<>>

\* a model content with a function response whose ID is over the limit, a
\* text and a function call became a tool message and an assistant message
C18_Witness ==
    /\ bPc = "done" /\ bOut.err = ""
    /\ bContent.role = "model"
    /\ Len(bOut.messages) = 2
    /\ Len(bContent.parts) = 3
    /\ bOut.messages[1].role = "tool"
    /\ Len(bOut.messages[1].toolCallID) = maxToolCallIDLength
    /\ bOut.messages[2].content = "Hel"
    /\ Len(bOut.messages[2].toolCalls) = 1

\* a user content with a function call: the user message does not carry it
C18_WitnessLeftOut ==
    /\ bPc = "done" /\ bOut.err = ""
    /\ bContent.role = "user"
    /\ Len(RemainingCalls(bContent)) > 0
    /\ Len(bOut.messages) = Len(ResponsePartsOf(bContent)) + 1
    /\ bOut.messages[Len(bOut.messages)].toolCalls = <<>>

-----------------------------------------------------------------------------
(* SpecFinish: the finish reasons of the vendors' responses, converted by   *)
(* convertResponse / buildStreamFinalResponse of the two adapters.          *)

\* number of conversions observed
MaxFinish == 2

\* the reason strings a response can carry: those of the Chat Completions
\* API, those of the Messages API (anthropic.StopReason), an unknown one
\* and the empty string of an absent reason
FinishReasons ==
    {"stop", "length", "tool_calls", "content_filter", "function_call",
     "end_turn", "max_tokens", "stop_sequence", "tool_use", "pause_turn", "refusal",
     "weird_reason", ""}

\* openai convertFinishReason: content_filter falls through to the default
convertFinishReason_noFilter(reason) ==
    CASE reason \in {"stop", "tool_calls", "function_call"} -> "STOP"
      [] reason = "length" -> "MAX_TOKENS"
      [] OTHER -> "FINISH_REASON_UNSPECIFIED"

\* openai convertFinishReason; the results are the genai.FinishReason values
convertFinishReason(reason) ==
    CASE reason \in {"stop", "tool_calls", "function_call"} -> "STOP"
      [] reason = "length" -> "MAX_TOKENS"
      [] reason = "content_filter" -> "SAFETY"
      [] OTHER -> "FINISH_REASON_UNSPECIFIED"

\* anthropic convertStopReason
convertStopReason(reason) ==
    CASE reason = "end_turn" -> "STOP"
      [] reason = "max_tokens" -> "MAX_TOKENS"
      [] reason = "stop_sequence" -> "STOP"
      [] reason = "tool_use" -> "STOP"
      [] OTHER -> "FINISH_REASON_UNSPECIFIED"

\* FinishReason: convertFinishReason(string(choice.FinishReason)) in the
\* Chat Completions adapter, convertStopReason(resp.StopReason) in the other
ConvertReason(vendor, reason) ==
    /\ Len(fLog) < MaxFinish
    /\ fLog' = Append(fLog, [vendor |-> vendor, reason |-> reason,
                             out |-> IF vendor = "openai"
                                     THEN convertFinishReason(reason)
                                     ELSE convertStopReason(reason)])
    /\ UNCHANGED <<memVars, sessVars, zSchema, zOut, zPc, idVars, concVars, streamVars, repairVars,
                   callVars, qVars, buildVars, nReq>>

NextFinish ==
    \E vendor \in {"openai", "anthropic"}, reason \in FinishReasons :
        ConvertReason(vendor, reason)

SpecFinish == InitIds /\ [][NextFinish]_vars

-----------------------------------------------------------------------------
(* Claims about the finish reasons *)

\* the shared table of the two vendors' reasons
SharedFinishTable(reason) ==
    CASE reason \in {"stop", "end_turn", "stop_sequence", "tool_calls", "tool_use",
                     "function_call"} -> "STOP"
      [] reason \in {"length", "max_tokens"} -> "MAX_TOKENS"
      [] reason = "content_filter" -> "SAFETY"
      [] OTHER -> "FINISH_REASON_UNSPECIFIED"

\* the rows of the table that are reasons of the vendor's own API
OwnReasons(vendor) ==
    IF vendor = "openai"
    THEN {"stop", "length", "tool_calls", "content_filter", "function_call"}
    ELSE {"end_turn", "max_tokens", "stop_sequence", "tool_use"}

\* C21 as stated: each vendor's conversion gives every reason the value of
\* the shared table (stop, end_turn, stop_sequence, tool_calls, tool_use,
\* function_call -> stop; length, max_tokens -> maxTokens; content_filter ->
\* safety; anything else -> unspecified).
C21_Original ==
    \A k \in 1..Len(fLog) : fLog[k].out = SharedFinishTable(fLog[k].reason)

\* C21 as amended: each vendor's conversion is total and gives the reasons
\* of its own API the value of the shared table; every other string, the
\* reasons of the other vendor included, gives unspecified.
C21_OwnRows ==
    \A k \in 1..Len(fLog) :
        /\ fLog[k].out \in {"STOP", "MAX_TOKENS", "SAFETY", "FINISH_REASON_UNSPECIFIED"}
        /\ fLog[k].out = IF fLog[k].reason \in OwnReasons(fLog[k].vendor)
                         THEN SharedFinishTable(fLog[k].reason)
                         ELSE "FINISH_REASON_UNSPECIFIED"

\* content_filter became safety in the Chat Completions adapter and the
\* Messages adapter converted a reason outside its table
C21_Witness ==
    /\ Len(fLog) = 2
    /\ fLog[1] = [vendor |-> "openai", reason |-> "content_filter", out |-> "SAFETY"]
    /\ fLog[2].vendor = "anthropic" /\ fLog[2].reason = "refusal"
    /\ fLog[2].out = "FINISH_REASON_UNSPECIFIED"

\* the Chat Completions adapter converted a reason of the Messages API
C21_WitnessOther ==
    \E k \in 1..Len(fLog) :
        /\ fLog[k].vendor = "openai" /\ fLog[k].reason = "end_turn"
        /\ fLog[k].out = "FINISH_REASON_UNSPECIFIED"

-----------------------------------------------------------------------------
(* SpecSchema: a genai.Schema tree, assembled bottom-up by the caller, is   *)
(* converted by convertSchema.  Description, Required and Enum are copied   *)
(* as they are and left out; the properties of a node are listed in a       *)
(* sequence (the names play no part in the conversion).                     *)

\* depth of the schema trees (a node without properties and items has 0)
MaxDepth == 2

\* genai.Type: the six JSON types, TypeUnspecified, and two tags that are
\* not in the table of schemaTypeToString (TypeNULL and the zero value)
SchemaTypes ==
    {"STRING", "NUMBER", "INTEGER", "BOOLEAN", "ARRAY", "OBJECT",
     "TYPE_UNSPECIFIED", "NULL", ""}

\* &genai.Schema{Type: type, Properties: properties, Items: items}
SchemaNode(type, properties, items) ==
    [nil |-> FALSE, type |-> type, properties |-> properties, items |-> items]

schemaTypeToString(t) ==
    CASE t = "STRING" -> "string"
      [] t = "NUMBER" -> "number"
      [] t = "INTEGER" -> "integer"
      [] t = "BOOLEAN" -> "boolean"
      [] t = "ARRAY" -> "array"
      [] t = "OBJECT" -> "object"
      [] OTHER -> "string"

RECURSIVE convertSchema(_)
\* convertSchema: the result map; the error it returns is always nil
convertSchema(schema) ==
    IF schema.nil
    THEN [type |-> <<"object">>, properties |-> << <<>> >>, items |-> <<>>]
    ELSE [type |-> IF schema.type # "TYPE_UNSPECIFIED"
                   THEN <<schemaTypeToString(schema.type)>>
                   ELSE <<>>,
          properties |->
              IF Len(schema.properties) > 0
              THEN << [k \in 1..Len(schema.properties) |->
                          convertSchema(schema.properties[k])] >>
              ELSE <<>>,
          items |->
              IF Len(schema.items) > 0
              THEN << convertSchema(schema.items[1]) >>
              ELSE <<>>]

RECURSIVE SchemaDepth(_)
\* the number of convertSchema calls nested below the one for schema
SchemaDepth(schema) ==
    IF schema.nil \/ (Len(schema.properties) = 0 /\ Len(schema.items) = 0)
    THEN 0
    ELSE 1 + (IF Len(schema.items) > 0
              THEN SchemaDepth(schema.items[1])
              ELSE SchemaDepth(schema.properties[1]))

\* the caller starts from a schema with the type tag t
SetType(t) ==
    /\ zPc = "build"
    /\ zSchema = NilSchema
    /\ zSchema' = SchemaNode(t, <<>>, <<>>)
    /\ UNCHANGED <<memVars, sessVars, fLog, zOut, zPc, idVars, concVars, streamVars, repairVars,
                   callVars, qVars, buildVars, nReq>>

\* ... makes the schema the Items of a new node
WrapItems(t) ==
    /\ zPc = "build"
    /\ ~zSchema.nil
    /\ SchemaDepth(zSchema) < MaxDepth
    /\ zSchema' = SchemaNode(t, <<>>, <<zSchema>>)
    /\ UNCHANGED <<memVars, sessVars, fLog, zOut, zPc, idVars, concVars, streamVars, repairVars,
                   callVars, qVars, buildVars, nReq>>

\* ... or one of the two Properties of a new node (the schema may be nil)
WrapProperties(t) ==
    /\ zPc = "build"
    /\ SchemaDepth(zSchema) < MaxDepth
    /\ zSchema' = SchemaNode(t, <<zSchema, SchemaNode("INTEGER", <<>>, <<>>)>>, <<>>)
    /\ UNCHANGED <<memVars, sessVars, fLog, zOut, zPc, idVars, concVars, streamVars, repairVars,
                   callVars, qVars, buildVars, nReq>>

\* result, err := convertSchema(schema)
ConvertSchema ==
    /\ zPc = "build"
    /\ zOut' = [result |-> convertSchema(zSchema), err |-> ""]
    /\ zPc' = "done"
    /\ UNCHANGED <<memVars, sessVars, fLog, zSchema, idVars, concVars, streamVars, repairVars,
                   callVars, qVars, buildVars, nReq>>

NextSchema ==
    \/ \E t \in SchemaTypes : SetType(t)
    \/ \E t \in {"OBJECT", "ARRAY", "TYPE_UNSPECIFIED"} : WrapItems(t)
    \/ \E t \in {"OBJECT", "ARRAY", "TYPE_UNSPECIFIED"} : WrapProperties(t)
    \/ ConvertSchema

SpecSchema == InitIds /\ [][NextSchema]_vars

-----------------------------------------------------------------------------
(* Claims about the schema converter *)

\* the type string of the table, "string" for every other tag
TableType(t) ==
    IF t \in {"STRING", "NUMBER", "INTEGER", "BOOLEAN", "ARRAY", "OBJECT"}
    THEN CASE t = "STRING" -> "string" [] t = "NUMBER" -> "number"
           [] t = "INTEGER" -> "integer" [] t = "BOOLEAN" -> "boolean"
           [] t = "ARRAY" -> "array" [] t = "OBJECT" -> "object"
    ELSE "string"

RECURSIVE TypedLike(_, _, _)
\* every node of the converted map out carries the type of its schema node,
\* a node with the tag TYPE_UNSPECIFIED the value unspecified; the property
\* and item schemas are converted in place
TypedLike(schema, out, unspecified) ==
    IF schema.nil
    THEN Len(out.type) = 1
    ELSE /\ out.type = IF schema.type = "TYPE_UNSPECIFIED"
                       THEN unspecified
                       ELSE <<TableType(schema.type)>>
         /\ IF Len(schema.properties) > 0
            THEN /\ Len(out.properties) = 1
                 /\ Len(out.properties[1]) = Len(schema.properties)
                 /\ \A k \in 1..Len(schema.properties) :
                        TypedLike(schema.properties[k], out.properties[1][k], unspecified)
            ELSE out.properties = <<>>
         /\ IF Len(schema.items) > 0
            THEN /\ Len(out.items) = 1
                 /\ TypedLike(schema.items[1], out.items[1], unspecified)
            ELSE out.items = <<>>

\* C22: the conversion of a schema tree never fails, and every converted
\* node carries a type string: that of the table for the six JSON types and
\* "string" for an unknown or unspecified tag, recursively for the property
\* and item schemas.
C22_EveryNodeTyped ==
    zPc = "done" => (zOut.err = "" /\ TypedLike(zSchema, zOut.result, <<"string">>))

\* what the code does: the same, but a node whose tag is TypeUnspecified
\* gets no "type" key at all
C22_TypedUnlessUnspecified ==
    zPc = "done" => (zOut.err = "" /\ TypedLike(zSchema, zOut.result, <<>>))

-----------------------------------------------------------------------------
(* SpecSession: the clients of one RedisSessionService work on one session  *)
(* (one appName, userID, sessionID).  Every Redis command is one step; the  *)
(* commands always succeed, and the keys do not expire.  A state key is a   *)
(* pair <<prefix, name>>, a State a function from keys to values.           *)

\* session.KeyPrefixTemp
KeyPrefixTemp == "temp:"

\* the State with the single entry key -> value
OneKey(key, value) == [k \in {key} |-> value]

\* for k, v := range top { base[k] = v }
Overlay(base, top) ==
    [k \in DOMAIN base \cup DOMAIN top |-> IF k \in DOMAIN top THEN top[k] ELSE base[k]]

\* req.State of the Create calls
CreateStates == {<<>>, OneKey(<<"", "a">>, 2)}

\* the key and value of the State().Set calls
SetArgs == {<<<<"", "b">>, 1>>, <<<<KeyPrefixTemp, "x">>, 1>>}

\* the events of the AppendEvent calls
SessionEvents ==
    {[id |-> "e1", partial |-> FALSE, delta |-> OneKey(<<"", "a">>, 1)],
     [id |-> "e2", partial |-> FALSE,
      delta |-> Overlay(OneKey(<<"", "b">>, 2), OneKey(<<KeyPrefixTemp, "x">>, 2))],
     [id |-> "e3", partial |-> TRUE, delta |-> OneKey(<<"", "b">>, 1)]}

\* trimTempStateDelta: the delta even keeps its temp: keys
trimTempStateDelta_keep(evt) == evt

\* trimTempStateDelta: evt.Actions.StateDelta without the temp: keys
trimTempStateDelta(evt) ==
    [evt EXCEPT !.delta = [k \in {j \in DOMAIN evt.delta : j[1] # KeyPrefixTemp} |->
                               evt.delta[k]]]

\* AppendEvent, the read-modify part: the delta is applied to the in-memory
\* State instead of on top of it
MergeState_memoryWins(stored, memory, delta) == Overlay(Overlay(stored, delta), memory)

\* AppendEvent, the read-modify part: storable.State, then the in-memory
\* State over it, then the StateDelta of the event on top
MergeState(stored, memory, delta) == Overlay(Overlay(stored, memory), delta)

\* Create up to the Exists test: an error if the session key exists
CreateCheck(p, state) ==
    /\ cl[p].pc = "idle"
    /\ nOps < MaxOps
    /\ nOps' = nOps + 1
    /\ cl' = [cl EXCEPT ![p] =
                 [@ EXCEPT !.op = "create", !.st = state,
                           !.pc = IF rdSess # <<>> THEN "idle" ELSE "createSet",
                           !.ret = IF rdSess # <<>> THEN "err" ELSE "none"]]
    /\ UNCHANGED <<memVars, rdSess, rdEvents, rdIndex, nCreated, nSet, convVars, idVars, concVars,
                   streamVars, repairVars, callVars, qVars, buildVars, nReq>>

\* Create from client.Set on: the session is stored with all of req.State,
\* its ID joins the index, and the caller gets the session object
CreateStore(p) ==
    /\ cl[p].pc = "createSet"
    /\ rdSess' = <<cl[p].st>>
    /\ rdIndex' = TRUE
    /\ nCreated' = nCreated + 1
    /\ cl' = [cl EXCEPT ![p] = [@ EXCEPT !.pc = "idle", !.ret = "ok",
                                         !.data = <<cl[p].st>>]]
    /\ UNCHANGED <<memVars, rdEvents, nOps, nSet, convVars, idVars, concVars,
                   streamVars, repairVars, callVars, qVars, buildVars, nReq>>

\* Get: a session object with a copy of the stored State
GetSession(p) ==
    /\ cl[p].pc = "idle"
    /\ nOps < MaxOps
    /\ nOps' = nOps + 1
    /\ cl' = [cl EXCEPT ![p] =
                 [@ EXCEPT !.op = "get",
                           !.ret = IF rdSess = <<>> THEN "err" ELSE "ok",
                           !.data = IF rdSess = <<>> THEN @ ELSE rdSess]]
    /\ UNCHANGED <<memVars, rdSess, rdEvents, rdIndex, nCreated, nSet, convVars, idVars, concVars,
                   streamVars, repairVars, callVars, qVars, buildVars, nReq>>

\* AppendEvent up to client.RPush: a partial event returns at once, any
\* other is trimmed and pushed to the events list
AppendPush(p, evt) ==
    /\ cl[p].pc = "idle"
    /\ cl[p].data # <<>>
    /\ nOps < MaxOps
    /\ nOps' = nOps + 1
    /\ IF evt.partial
       THEN /\ cl' = [cl EXCEPT ![p] = [@ EXCEPT !.op = "append", !.evt = evt,
                                                 !.ret = "ok"]]
            /\ UNCHANGED rdEvents
       ELSE /\ rdEvents' = Append(rdEvents, trimTempStateDelta(evt))
            /\ cl' = [cl EXCEPT ![p] = [@ EXCEPT !.op = "append", !.ret = "none",
                                                 !.evt = trimTempStateDelta(evt),
                                                 !.pc = "appendGet"]]
    /\ UNCHANGED <<memVars, rdSess, rdIndex, nCreated, nSet, convVars, idVars, concVars,
                   streamVars, repairVars, callVars, qVars, buildVars, nReq>>

\* AppendEvent from client.Get to json.Marshal(storable): the stored
\* session is read and the new State computed from it
AppendGet(p) ==
    /\ cl[p].pc = "appendGet"
    /\ cl' = [cl EXCEPT ![p] =
                 IF rdSess = <<>>
                 THEN [@ EXCEPT !.pc = "idle", !.ret = "err"]
                 ELSE [@ EXCEPT !.pc = "appendSet",
                                !.st = MergeState(rdSess[1], cl[p].data[1],
                                                  cl[p].evt.delta)]]
    /\ UNCHANGED <<memVars, rdSess, rdEvents, rdIndex, nOps, nCreated, nSet, convVars, idVars,
                   concVars, streamVars, repairVars, callVars, qVars, buildVars, nReq>>

\* AppendEvent, client.Set(key, updatedData): the session is written back
AppendSet(p) ==
    /\ cl[p].pc = "appendSet"
    /\ rdSess' = <<cl[p].st>>
    /\ cl' = [cl EXCEPT ![p] = [@ EXCEPT !.pc = "idle", !.ret = "ok"]]
    /\ UNCHANGED <<memVars, rdEvents, rdIndex, nOps, nCreated, nSet, convVars, idVars,
                   concVars, streamVars, repairVars, callVars, qVars, buildVars, nReq>>

\* redisState.Set and persist up to client.Get: the in-memory State takes
\* the value; without a stored session persist returns nil
StateSet(p, kv) ==
    /\ cl[p].pc = "idle"
    /\ cl[p].data # <<>>
    /\ nOps < MaxOps
    /\ nOps' = nOps + 1
    /\ nSet' = nSet + 1
    /\ cl' = [cl EXCEPT ![p] =
                 [@ EXCEPT !.op = "set", !.kv = kv,
                           !.data = <<Overlay(cl[p].data[1], OneKey(kv[1], kv[2]))>>,
                           !.pc = IF rdSess = <<>> THEN "idle" ELSE "persistSet",
                           !.ret = IF rdSess = <<>> THEN "ok" ELSE "none"]]
    /\ UNCHANGED <<memVars, rdSess, rdEvents, rdIndex, nCreated, convVars, idVars, concVars,
                   streamVars, repairVars, callVars, qVars, buildVars, nReq>>

\* persist, client.Set: the stored State is replaced by the in-memory State
PersistSet(p) ==
    /\ cl[p].pc = "persistSet"
    /\ rdSess' = cl[p].data
    /\ cl' = [cl EXCEPT ![p] = [@ EXCEPT !.pc = "idle", !.ret = "ok"]]
    /\ UNCHANGED <<memVars, rdEvents, rdIndex, nOps, nCreated, nSet, convVars, idVars,
                   concVars, streamVars, repairVars, callVars, qVars, buildVars, nReq>>

\* the steps of client p
ClientStep(p) ==
    \/ \E state \in CreateStates : CreateCheck(p, state)
    \/ CreateStore(p)
    \/ GetSession(p)
    \/ \E evt \in SessionEvents : AppendPush(p, evt)
    \/ AppendGet(p)
    \/ AppendSet(p)
    \/ \E kv \in SetArgs : StateSet(p, kv)
    \/ PersistSet(p)

NextSession == \E p \in Clients : ClientStep(p)

SpecSession == InitIds /\ [][NextSession]_vars

\* one client alone: its calls run from start to end
NextSessionAlone == ClientStep(1)

SpecSessionAlone == InitIds /\ [][NextSessionAlone]_vars

-----------------------------------------------------------------------------
(* Claims about the Redis session service *)

\* the temp: keys of the stored session State
StoredTempKeys(sess) ==
    IF sess = <<>> THEN {} ELSE {k \in DOMAIN sess[1] : k[1] = "temp:"}

\* the stored State has every entry of the State d
StoredHas(d) ==
    /\ rdSess # <<>>
    /\ \A k \in DOMAIN d : k \in DOMAIN rdSess[1] /\ rdSess[1][k] = d[k]

\* client p is back from an AppendEvent of a non-partial event, without error
Appended(p) ==
    /\ cl[p].pc = "idle" /\ cl[p].op = "append" /\ cl[p].ret = "ok"
    /\ ~cl[p].evt.partial

\* client p is back from a State().Set, without error
HasSet(p) == cl[p].pc = "idle" /\ cl[p].op = "set" /\ cl[p].ret = "ok"

\* C23: of the Create calls for one session key at most one succeeds, in
\* any interleaving; the others find the session and return an error.
C23_AtMostOneCreate == nCreated <= 1

\* C23, the part without concurrency: a Create call that finds the session
\* key returns an error and leaves session, events and index as they are
C23_ExistingRejected ==
    [][\A p \in Clients :
          (cl[p].pc = "idle" /\ cl'[p] # cl[p] /\ cl'[p].op = "create" /\ rdSess # <<>>)
              => (cl'[p].ret = "err" /\ cl'[p].pc = "idle"
                  /\ UNCHANGED <<memVars, rdSess, rdEvents, rdIndex>>)]_vars

\* C24: AppendEvent persists no ephemeral key: the events list holds no
\* event with a temp: key in its StateDelta, and the session State an
\* AppendEvent call writes has no temp: key that was not stored before.
C24_NoTempPersisted ==
    [][\A p \in Clients :
          (cl'[p].op = "append" /\ cl'[p] # cl[p])
              => /\ \A k \in 1..Len(rdEvents') :
                       \A key \in DOMAIN rdEvents'[k].delta : key[1] # "temp:"
                 /\ StoredTempKeys(rdSess') \subseteq StoredTempKeys(rdSess)]_vars

\* C24, the part that holds: no stored event has a temp: key
C24_EventsTrimmed ==
    \A k \in 1..Len(rdEvents) : \A key \in DOMAIN rdEvents[k].delta : key[1] # "temp:"

\* the event as the caller passed it to AppendEvent
PassedEvent(stored) == CHOOSE e \in SessionEvents : e.id = stored.id

\* C25: when a client working alone returns from AppendEvent of a
\* non-partial event without error, the event is the last of the stored
\* events and the stored State has the delta's value for every non-temp key
\* of the event's StateDelta; an AppendEvent of a partial event leaves the
\* store as it is.
C25_AppendPersists ==
    /\ [](Appended(1) =>
            /\ Len(rdEvents) > 0
            /\ rdEvents[Len(rdEvents)].id = cl[1].evt.id
            /\ \A k \in DOMAIN PassedEvent(cl[1].evt).delta :
                   k[1] # "temp:" =>
                       StoredHas(OneKey(k, PassedEvent(cl[1].evt).delta[k])))
    /\ [][(nOps' = nOps + 1 /\ cl'[1].op = "append" /\ cl'[1].evt.partial)
              => UNCHANGED <<memVars, rdSess, rdEvents, rdIndex>>]_vars

\* the session object still has a = 2, the event's delta a = 1 was stored
C25_Witness ==
    /\ Appended(1)
    /\ cl[1].evt.id = "e1"
    /\ cl[1].data[1] = OneKey(<<"", "a">>, 2)
    /\ StoredHas(OneKey(<<"", "a">>, 1))
    /\ rdEvents[Len(rdEvents)].id = "e1"

\* a partial event was passed to AppendEvent on a session with events
C25_WitnessPartial ==
    /\ cl[1].pc = "idle" /\ cl[1].op = "append" /\ cl[1].ret = "ok"
    /\ cl[1].evt.partial
    /\ Len(rdEvents) = 1

\* C30: when the two clients have both returned without error from calls
\* that change disjoint keys, two AppendEvent calls or an AppendEvent and a
\* State().Set, and nothing else wrote to the session since it was created,
\* the stored State has both changes and the events list both events.
C30_NoLostUpdate ==
    /\ (/\ Appended(1) /\ Appended(2)
        /\ DOMAIN cl[1].evt.delta \cap DOMAIN cl[2].evt.delta = {}
        /\ Len(rdEvents) = 2 /\ nSet = 0)
         => /\ StoredHas(cl[1].evt.delta) /\ StoredHas(cl[2].evt.delta)
            /\ {rdEvents[1].id, rdEvents[2].id} = {cl[1].evt.id, cl[2].evt.id}
    /\ \A p, q \in Clients :
        (/\ Appended(p) /\ HasSet(q)
         /\ cl[q].kv[1] \notin DOMAIN cl[p].evt.delta
         /\ Len(rdEvents) = 1 /\ nSet = 1)
         => /\ StoredHas(cl[p].evt.delta)
            /\ StoredHas(OneKey(cl[q].kv[1], cl[q].kv[2]))

-----------------------------------------------------------------------------
(* SpecMemory: calls to one PostgresMemoryService without an embedding      *)
(* model.  Every SQL statement and the transaction of AddSession run as one *)
(* step and succeed.  The texts and queries are single words, so that the   *)
(* full-text match is equality; the order of the rows a search returns and  *)
(* its LIMIT 10 are left out.  An event ID is a tuple: <<>> for the empty   *)
(* string, <<id>> for an ID the event carries.                              *)

\* the (appName, userID) pairs of the requests
MemOwners == {<<"app1", "u1">>, <<"app1", "u2">>, <<"app2", "u1">>}

\* &session.Event{ID, Timestamp, Content}: text is what
\* extractTextFromContent gives for the content, ts = 0 the zero time
MemEvent(id, text, ts) == [id |-> id, text |-> text, ts |-> ts]

\* the sessions passed to AddSession: with a text and a text-less event,
\* the same session ID under another user and another app, without events,
\* and with an event that carries no ID (with and without a timestamp)
MemSessions ==
    {[app |-> "app1", user |-> "u1", id |-> "s1",
      events |-> <<MemEvent(<<"e1">>, "hello", -1), MemEvent(<<"e2">>, "", -1)>>],
     [app |-> "app1", user |-> "u2", id |-> "s1",
      events |-> <<MemEvent(<<"e1">>, "world", -1)>>],
     [app |-> "app2", user |-> "u1", id |-> "s1",
      events |-> <<MemEvent(<<"e1">>, "world", -1)>>],
     [app |-> "app1", user |-> "u1", id |-> "s2", events |-> <<>>],
     [app |-> "app1", user |-> "u2", id |-> "s2",
      events |-> <<MemEvent(<<>>, "hello", -2)>>],
     [app |-> "app1", user |-> "u1", id |-> "s3",
      events |-> <<MemEvent(<<>>, "hello", 0)>>]}

\* WHERE app_name = $1 AND user_id = $2, without the test of user_id
OwnedRows_anyUser(rows, app, user) == {r \in rows : r.app = app}

\* WHERE app_name = $1 AND user_id = $2
OwnedRows(rows, app, user) == {r \in rows : r.app = app /\ r.user = user}

\* to_tsvector('english', content_text) @@ plainto_tsquery('english', $3)
TextMatches(text, query) == query # "" /\ text = query

\* AddSession: eventID, for an event at the time now; an event without ID
\* gets InvocationID-timestamp, with time.Now() for a zero timestamp
EventIDOf(evt, now) ==
    IF evt.id # <<>> THEN evt.id ELSE <<"inv", IF evt.ts = 0 THEN now ELSE evt.ts>>

\* INSERT without the ON CONFLICT clause taking effect: always a new row
Upsert_insert(tab, app, user, session, event, text) ==
    [seq |-> tab.seq + 1,
     rows |-> tab.rows \cup {[id |-> tab.seq + 1, app |-> app, user |-> user,
                              session |-> session, event |-> event, text |-> text]}]

\* INSERT ... ON CONFLICT (app_name, user_id, session_id, event_id) DO
\* UPDATE SET content_text: the table [rows, seq] after the statement
Upsert(tab, app, user, session, event, text) ==
    LET same == {r \in tab.rows : /\ r.app = app /\ r.user = user
                                  /\ r.session = session /\ r.event = event}
    IN [seq |-> tab.seq + 1,
        rows |-> IF same = {}
                 THEN tab.rows \cup {[id |-> tab.seq + 1, app |-> app, user |-> user,
                                      session |-> session, event |-> event,
                                      text |-> text]}
                 ELSE (tab.rows \ same) \cup {[r EXCEPT !.text = text] : r \in same}]

RECURSIVE AddEvents(_, _, _, _)
\* AddSession, for event := range events.All(): the table after the first
\* n events of sess, at the time now; events without text are skipped
AddEvents(tab, sess, now, n) ==
    IF n = 0 THEN tab
    ELSE IF sess.events[n].text = ""
         THEN AddEvents(tab, sess, now, n - 1)
         ELSE Upsert(AddEvents(tab, sess, now, n - 1), sess.app, sess.user, sess.id,
                     EventIDOf(sess.events[n], now), sess.events[n].text)

\* err := s.AddSession(ctx, sess)
AddSession(sess) ==
    /\ memClock < MaxMemOps
    /\ memClock' = memClock + 1
    /\ IF Len(sess.events) = 0
       THEN UNCHANGED <<mem, memSeq>>
       ELSE /\ mem' = AddEvents([rows |-> mem, seq |-> memSeq], sess, memClock',
                                Len(sess.events)).rows
            /\ memSeq' = AddEvents([rows |-> mem, seq |-> memSeq], sess, memClock',
                                   Len(sess.events)).seq
    /\ memRes' = [op |-> "add", app |-> sess.app, user |-> sess.user, arg |-> sess.id,
                  id |-> 0, rows |-> {}, err |-> ""]
    /\ memAdds' = Append(memAdds, sess)
    /\ UNCHANGED <<sessVars, convVars, idVars, concVars, streamVars, repairVars,
                   callVars, qVars, buildVars, nReq>>

\* Search and SearchWithID: the IDs of the rows returned; searchByText for
\* a query, then searchRecent whenever nothing was found so far
SearchRows(rows, app, user, query) ==
    LET byText == IF query # ""
                  THEN {r.id : r \in {o \in OwnedRows(rows, app, user) :
                                         TextMatches(o.text, query)}}
                  ELSE {}
    IN IF byText = {}
       THEN {r.id : r \in OwnedRows(rows, app, user)}
       ELSE byText

\* resp, err := s.Search(ctx, &memory.SearchRequest{AppName, UserID, Query})
Search(app, user, query) ==
    /\ memClock < MaxMemOps
    /\ memClock' = memClock + 1
    /\ memRes' = [op |-> "search", app |-> app, user |-> user, arg |-> query,
                  id |-> 0, rows |-> SearchRows(mem, app, user, query), err |-> ""]
    /\ UNCHANGED <<mem, memSeq, memAdds, sessVars, convVars, idVars, concVars,
                   streamVars, repairVars, callVars, qVars, buildVars, nReq>>

\* err := s.UpdateMemory(ctx, appName, userID, entryID, newContent)
UpdateMemory(app, user, entryID, newContent) ==
    /\ memClock < MaxMemOps
    /\ memClock' = memClock + 1
    /\ LET hit == {r \in OwnedRows(mem, app, user) : r.id = entryID}
       IN /\ mem' = IF newContent = "" THEN mem
                    ELSE (mem \ hit) \cup {[r EXCEPT !.text = newContent] : r \in hit}
          /\ memRes' = [op |-> "update", app |-> app, user |-> user, arg |-> newContent,
                        id |-> entryID, rows |-> {},
                        err |-> IF newContent = "" THEN "content cannot be empty"
                                ELSE IF hit = {} THEN "memory entry not found" ELSE ""]
    /\ UNCHANGED <<memSeq, memAdds, sessVars, convVars, idVars, concVars,
                   streamVars, repairVars, callVars, qVars, buildVars, nReq>>

\* err := s.DeleteMemory(ctx, appName, userID, entryID)
DeleteMemory(app, user, entryID) ==
    /\ memClock < MaxMemOps
    /\ memClock' = memClock + 1
    /\ LET hit == {r \in OwnedRows(mem, app, user) : r.id = entryID}
       IN /\ mem' = mem \ hit
          /\ memRes' = [op |-> "delete", app |-> app, user |-> user, arg |-> "",
                        id |-> entryID, rows |-> {},
                        err |-> IF hit = {} THEN "memory entry not found" ELSE ""]
    /\ UNCHANGED <<memSeq, memAdds, sessVars, convVars, idVars, concVars,
                   streamVars, repairVars, callVars, qVars, buildVars, nReq>>

NextMemory ==
    \/ \E sess \in MemSessions : AddSession(sess)
    \/ \E o \in MemOwners, query \in {"", "hello", "xyz"} : Search(o[1], o[2], query)
    \/ \E o \in MemOwners, entryID \in 1..(memSeq + 1), newContent \in {"", "hello"} :
           UpdateMemory(o[1], o[2], entryID, newContent)
    \/ \E o \in MemOwners, entryID \in 1..(memSeq + 1) : DeleteMemory(o[1], o[2], entryID)

SpecMemory == InitIds /\ [][NextMemory]_vars

-----------------------------------------------------------------------------
(* Claims about the Postgres memory service *)

\* the rows stored for the session sess
RowsOfSession(rows, sess) ==
    {r \in rows : r.app = sess.app /\ r.user = sess.user /\ r.session = sess.id}

\* the number of events of sess that bear a text
TextBearing(sess) ==
    Cardinality({k \in 1..Len(sess.events) : sess.events[k].text # ""})

\* every text-bearing event of sess carries an ID or a timestamp
HasStableIDs(sess) ==
    \A k \in 1..Len(sess.events) :
        sess.events[k].text # "" => (sess.events[k].id # <<>> \/ sess.events[k].ts # 0)

\* the step is a call of the operation op
MemCall(op) == memClock' = memClock + 1 /\ memRes'.op = op

\* C26: Search and SearchWithID return only rows stored under the
\* request's appName and userID; UpdateMemory and DeleteMemory called with
\* an appName or userID that is not the owner's of the row with the given
\* ID return an error and leave that row present and unchanged.
C26_Isolated ==
    /\ [](memRes.op = "search" =>
            \A id \in memRes.rows :
                \E r \in mem : r.id = id /\ r.app = memRes.app /\ r.user = memRes.user)
    /\ [][(MemCall("update") \/ MemCall("delete")) =>
            \A r \in mem :
                (r.id = memRes'.id /\ <<r.app, r.user>> # <<memRes'.app, memRes'.user>>)
                    => (memRes'.err # "" /\ r \in mem')]_vars

\* a search of a user with rows returned rows, while the table holds rows
\* of another user of the same app
C26_Witness ==
    /\ memRes.op = "search"
    /\ memRes.rows # {}
    /\ \E r \in mem : r.app = memRes.app /\ r.user # memRes.user

\* an update with a valid content was refused for the row of another user
C26_WitnessUpdate ==
    /\ memRes.op = "update" /\ memRes.arg # ""
    /\ memRes.err = "memory entry not found"
    /\ \E r \in mem : r.id = memRes.id /\ r.app = memRes.app /\ r.user # memRes.user

C27_WitnessNoID ==
    /\ Len(memAdds) = 2
    /\ memAdds[1] = memAdds[2]
    /\ ~HasStableIDs(memAdds[1])
    /\ Cardinality(RowsOfSession(mem, memAdds[1])) = 2

\* C28: a Search with a non-empty query that matches no row of the
\* request's appName and userID returns no memory; the recent rows are
\* returned only for an empty query.
C28_NoFallback ==
    (/\ memRes.op = "search"
     /\ memRes.arg # ""
     /\ \A r \in mem : (r.app = memRes.app /\ r.user = memRes.user) => r.text # memRes.arg)
        => memRes.rows = {}
====
